---- MODULE Spec2Model ----
(***************************************************************************)
(* Paper-trading desk: the LLM plan runner (runLlmPlan), the plan          *)
(* validator (parseArbitragePlan / extractJson / arbitragePlanSchema) and  *)
(* the ledger executor (executeTradeInputs, POST /api/trades, reset).      *)
(***************************************************************************)
EXTENDS Integers, Sequences, FiniteSets, TLC

VARIABLES
    exists,      \* set of portfolio ids that have a Portfolio row
    cash,        \* cash[p]      : Portfolio.cashBalance
    positions,   \* positions[p] : set of Position rows of portfolio p
    trades,      \* trades[p]    : Trade rows of portfolio p, in insertion order
    run,         \* the runLlmPlan call in flight (or the last one finished)
    lastCall,    \* the last invocation of a ledger transaction and its outcome
    text,        \* input of the extraction check: a model response text
    extracted,   \* outcome of parseArbitragePlan's extraction on text
    book,   \* the position a sequence of fills is applied to, with the fills
    url,   \* an API base address, and buildChatCompletionsUrl applied to it once and twice
    http,   \* one callProvider invocation: the requests it sent, the answers, its outcome
    admin,   \* the LlmProvider and PortfolioPrompt tables and the last request made on them
    ctx,   \* one build of the execution context: held symbols, outages, outcome
    route,   \* one request of the run route: the configuration it finds, its body, its outcome
    pricing,   \* one call of buildTradesFromPlan: the orders, the quotes, the oracle, the outcome
    execution   \* the LlmExecution record of one run request and whether the request was answered

vars == <<exists, cash, positions, trades, run, lastCall, text, extracted, book, url, http, admin, ctx, route, pricing, execution>>

ledgerVars == <<exists, cash, positions, trades>>

(***************************************************************************)
(* Bounds                                                                  *)
(***************************************************************************)
MaxTrades == 2          \* Trade rows kept per portfolio
MaxLedgerRows == 3      \* Trade rows kept per portfolio under direct ledger use
MaxBatch == 2           \* instructions in a batch given to the ledger directly
MaxAdminRows == 2       \* LlmProvider rows, and PortfolioPrompt rows, ever created
MaxProviders == 3        \* LlmProvider rows a run request may find
MaxPricedOrders == 2     \* orders of a plan given to buildTradesFromPlan on its own
MaxPairRows == 2         \* Trade records per portfolio when two portfolios are traded
MaxFills == 3           \* BUY fills followed on one fresh position
MaxFillQty == 2         \* shares in one fill
MaxUrlLen == 5          \* atoms of an API base address after its origin
MaxTextLen == 6         \* tokens in a model response text

Portfolios == {1, 2}
Desk == {1}              \* the portfolios the desk trades
Symbols == {"AAA", "BBB"}

(***************************************************************************)
(* Program constants                                                       *)
(***************************************************************************)
DEFAULT_PORTFOLIO_ID == 1
INITIAL_CASH_BALANCE == 100000
MAX_PLAN_ATTEMPTS == 3
MaxPlanOrders == 25
AvgScale == 100         \* avgPrice is kept in 1/AvgScale units

NoPrice == -1           \* a quote field that is null / undefined

(***************************************************************************)
(* Ledger: applyTrade, executeTradeInputs, POST /api/trades, reset         *)
(***************************************************************************)
TradeInput(symbol, side, qty, price) ==
    [symbol |-> symbol, side |-> side, qty |-> qty, price |-> price]

\* the instructions the desk sends: within and beyond the opening cash, on a
\* held and on a new symbol, at a gain and at a loss
TradeInputs ==
    { TradeInput("AAA", "BUY", 1, 30000), TradeInput("AAA", "BUY", 2, 70000),
      TradeInput("AAA", "SELL", 1, 70000), TradeInput("AAA", "SELL", 2, 30000),
      TradeInput("BBB", "BUY", 1, 70000), TradeInput("BBB", "SELL", 1, 30000) }

InsufficientCashError == "Insufficient cash balance for this trade"

NoPosition == [symbol |-> "", qty |-> 0, avgPrice |-> 0]

\* tx.position.findFirst({ where: { portfolioId, symbol } })
FindPosition(rows, symbol) ==
    IF \E r \in rows : r.symbol = symbol
    THEN CHOOSE r \in rows : r.symbol = symbol
    ELSE NoPosition

\* Decimal division, rounded half up to 1/AvgScale
DecDiv(num, den) == (2 * num + den) \div (2 * den)

\* a BUY that averages the old average and the fill price without weights
applyTrade_UnweightedMean(position, trade) ==
    IF position = NoPosition
    THEN IF trade.side = "SELL"
         THEN [err |-> "Cannot sell a position that does not exist", qty |-> 0, avgPrice |-> 0]
         ELSE [err |-> "", qty |-> trade.qty, avgPrice |-> trade.price * AvgScale]
    ELSE IF trade.side = "BUY"
         THEN LET newQty == position.qty + trade.qty
                  totalCost == position.avgPrice + trade.price * AvgScale
              IN [err |-> "", qty |-> newQty,
                  avgPrice |-> IF newQty = 0 THEN 0 ELSE DecDiv(totalCost, 2)]
         ELSE IF trade.qty > position.qty
              THEN [err |-> "Cannot sell more shares than currently held", qty |-> 0, avgPrice |-> 0]
              ELSE LET newQty == position.qty - trade.qty
                   IN [err |-> "", qty |-> newQty,
                       avgPrice |-> IF newQty = 0 THEN 0 ELSE position.avgPrice]

\* a SELL that takes the sell price as the new average price
applyTrade_SellReprices(position, trade) ==
    IF position = NoPosition
    THEN IF trade.side = "SELL"
         THEN [err |-> "Cannot sell a position that does not exist", qty |-> 0, avgPrice |-> 0]
         ELSE [err |-> "", qty |-> trade.qty, avgPrice |-> trade.price * AvgScale]
    ELSE IF trade.side = "BUY"
         THEN LET newQty == position.qty + trade.qty
                  totalCost == position.avgPrice * position.qty
                               + trade.price * AvgScale * trade.qty
              IN [err |-> "", qty |-> newQty,
                  avgPrice |-> IF newQty = 0 THEN 0 ELSE DecDiv(totalCost, newQty)]
         ELSE IF trade.qty > position.qty
              THEN [err |-> "Cannot sell more shares than currently held", qty |-> 0, avgPrice |-> 0]
              ELSE LET newQty == position.qty - trade.qty
                   IN [err |-> "", qty |-> newQty,
                       avgPrice |-> IF newQty = 0 THEN 0 ELSE trade.price * AvgScale]

\* a SELL whose quantity is not compared with the held quantity
applyTrade_SellUnchecked(position, trade) ==
    IF position = NoPosition
    THEN IF trade.side = "SELL"
         THEN [err |-> "Cannot sell a position that does not exist", qty |-> 0, avgPrice |-> 0]
         ELSE [err |-> "", qty |-> trade.qty, avgPrice |-> trade.price * AvgScale]
    ELSE IF trade.side = "BUY"
         THEN LET newQty == position.qty + trade.qty
                  totalCost == position.avgPrice * position.qty
                               + trade.price * AvgScale * trade.qty
              IN [err |-> "", qty |-> newQty,
                  avgPrice |-> IF newQty = 0 THEN 0 ELSE DecDiv(totalCost, newQty)]
         ELSE LET newQty == position.qty - trade.qty
              IN [err |-> "", qty |-> newQty,
                  avgPrice |-> IF newQty = 0 THEN 0 ELSE position.avgPrice]

\* applyTrade(position, trade): the new qty / avgPrice, or the error thrown
applyTrade(position, trade) ==
    IF position = NoPosition
    THEN IF trade.side = "SELL"
         THEN [err |-> "Cannot sell a position that does not exist", qty |-> 0, avgPrice |-> 0]
         ELSE [err |-> "", qty |-> trade.qty, avgPrice |-> trade.price * AvgScale]
    ELSE IF trade.side = "BUY"
         THEN LET newQty == position.qty + trade.qty
                  totalCost == position.avgPrice * position.qty
                               + trade.price * AvgScale * trade.qty
              IN [err |-> "", qty |-> newQty,
                  avgPrice |-> IF newQty = 0 THEN 0 ELSE DecDiv(totalCost, newQty)]
         ELSE IF trade.qty > position.qty
              THEN [err |-> "Cannot sell more shares than currently held", qty |-> 0, avgPrice |-> 0]
              ELSE LET newQty == position.qty - trade.qty
                   IN [err |-> "", qty |-> newQty,
                       avgPrice |-> IF newQty = 0 THEN 0 ELSE position.avgPrice]

\* createTradeRecord
createTradeRecord(trade) ==
    [symbol |-> trade.symbol, side |-> trade.side, qty |-> trade.qty, price |-> trade.price]

\* currentCash.lt(tradeCost) of executeTradeInputs
InsufficientCash(currentCash, tradeCost) == currentCash < tradeCost

\* a comparison that never rejects a BUY
PostInsufficientCash_Never(currentCash, tradeCost) == FALSE

\* a comparison that also rejects a BUY spending the whole balance
PostInsufficientCash_OrEqual(currentCash, tradeCost) == currentCash <= tradeCost

\* currentCash.lt(tradeCost) of POST /api/trades
PostInsufficientCash(currentCash, tradeCost) == currentCash < tradeCost

\* a loop that does not credit the proceeds of a SELL
ApplyOne_SellNotCredited(st, trade) ==
    LET tradeCost == trade.qty * trade.price
        currentCash == st.cash
    IN IF trade.side = "BUY" /\ InsufficientCash(currentCash, tradeCost)
       THEN [st EXCEPT !.err = InsufficientCashError]
       ELSE LET newCash == IF trade.side = "BUY" THEN currentCash - tradeCost
                                                ELSE currentCash
                existingPosition == FindPosition(st.positions, trade.symbol)
                updated == applyTrade(existingPosition, trade)
                afterCash == [st EXCEPT !.cash = newCash]
            IN IF updated.err # ""
               THEN [afterCash EXCEPT !.err = updated.err]
               ELSE LET row == [symbol |-> trade.symbol, qty |-> updated.qty,
                                avgPrice |-> updated.avgPrice]
                        newRows == IF existingPosition = NoPosition
                                   THEN st.positions \cup {row}
                                   ELSE IF updated.qty = 0
                                        THEN st.positions \ {existingPosition}
                                        ELSE (st.positions \ {existingPosition}) \cup {row}
                    IN [afterCash EXCEPT !.positions = newRows,
                                         !.trades = Append(st.trades, createTradeRecord(trade)),
                                         !.done = st.done + 1]

\* a loop that updates the row of an exhausted position instead of deleting it
ApplyOne_KeepsZeroRow(st, trade) ==
    LET tradeCost == trade.qty * trade.price
        currentCash == st.cash
    IN IF trade.side = "BUY" /\ InsufficientCash(currentCash, tradeCost)
       THEN [st EXCEPT !.err = InsufficientCashError]
       ELSE LET newCash == IF trade.side = "BUY" THEN currentCash - tradeCost
                                                ELSE currentCash + tradeCost
                existingPosition == FindPosition(st.positions, trade.symbol)
                updated == applyTrade(existingPosition, trade)
                afterCash == [st EXCEPT !.cash = newCash]
            IN IF updated.err # ""
               THEN [afterCash EXCEPT !.err = updated.err]
               ELSE LET row == [symbol |-> trade.symbol, qty |-> updated.qty,
                                avgPrice |-> updated.avgPrice]
                        newRows == IF existingPosition = NoPosition
                                   THEN st.positions \cup {row}
                                   ELSE (st.positions \ {existingPosition}) \cup {row}
                    IN [afterCash EXCEPT !.positions = newRows,
                                         !.trades = Append(st.trades, createTradeRecord(trade)),
                                         !.done = st.done + 1]

\* One iteration of the loop of executeTradeInputs on the transaction's view
\* st = [cash, positions, trades, err, done]; a throw stops the loop with the
\* writes made so far still in the transaction's view.
ApplyOne(st, trade) ==
    LET tradeCost == trade.qty * trade.price
        currentCash == st.cash
    IN IF trade.side = "BUY" /\ InsufficientCash(currentCash, tradeCost)
       THEN [st EXCEPT !.err = InsufficientCashError]
       ELSE LET newCash == IF trade.side = "BUY" THEN currentCash - tradeCost
                                                ELSE currentCash + tradeCost
                existingPosition == FindPosition(st.positions, trade.symbol)
                updated == applyTrade(existingPosition, trade)
                afterCash == [st EXCEPT !.cash = newCash]
            IN IF updated.err # ""
               THEN [afterCash EXCEPT !.err = updated.err]
               ELSE LET row == [symbol |-> trade.symbol, qty |-> updated.qty,
                                avgPrice |-> updated.avgPrice]
                        newRows == IF existingPosition = NoPosition
                                   THEN st.positions \cup {row}
                                   ELSE IF updated.qty = 0
                                        THEN st.positions \ {existingPosition}
                                        ELSE (st.positions \ {existingPosition}) \cup {row}
                    IN [afterCash EXCEPT !.positions = newRows,
                                         !.trades = Append(st.trades, createTradeRecord(trade)),
                                         !.done = st.done + 1]

RECURSIVE ApplyAll(_, _)
ApplyAll(st, batch) ==
    IF batch = <<>> \/ st.err # ""
    THEN st
    ELSE ApplyAll(ApplyOne(st, Head(batch)), Tail(batch))

\* a callback whose writes are kept although it threw
Transaction_NoRollback(before, after) == after

\* prisma.$transaction(callback): the callback's writes are committed when it
\* returns and discarded when it throws.
Transaction(before, after) ==
    IF after.err = "" THEN after
    ELSE [before EXCEPT !.err = after.err, !.done = after.done]

\* what the transaction reads of portfolio p when it starts
TxView(p) ==
    [cash |-> cash[p], positions |-> positions[p], trades |-> trades[p],
     err |-> "", done |-> 0]

\* an executor that checks every instruction against the state the batch
\* started from before it applies any
executeTradeInputs_ChecksAtStart(batch, p) ==
    IF batch = <<>>
    THEN TxView(p)
    ELSE IF p \notin exists
         THEN [TxView(p) EXCEPT !.err = "Portfolio not found"]
         ELSE IF \E i \in 1..Len(batch) : ApplyOne(TxView(p), batch[i]).err # ""
              THEN LET i == CHOOSE k \in 1..Len(batch) :
                               /\ ApplyOne(TxView(p), batch[k]).err # ""
                               /\ \A j \in 1..(k - 1) : ApplyOne(TxView(p), batch[j]).err = ""
                   IN [TxView(p) EXCEPT !.err = ApplyOne(TxView(p), batch[i]).err]
              ELSE Transaction(TxView(p), ApplyAll(TxView(p), batch))

\* executeTradeInputs(trades, portfolioId): the state of portfolio p after the call
executeTradeInputs(batch, p) ==
    IF batch = <<>>
    THEN TxView(p)
    ELSE IF p \notin exists
         THEN [TxView(p) EXCEPT !.err = "Portfolio not found"]
         ELSE Transaction(TxView(p), ApplyAll(TxView(p), batch))

\* getPortfolioRecord(portfolioId): the default portfolio is created on first
\* access, any other id must exist.
getPortfolioRecordOk(p) == p = DEFAULT_PORTFOLIO_ID \/ p \in exists

\* the Portfolio table after getPortfolioRecord(p) returned
EnsureExists(p) == exists \cup {p}

CashAfterEnsure(p) ==
    IF p \in exists THEN cash ELSE [cash EXCEPT ![p] = INITIAL_CASH_BALANCE]

\* the transaction of POST /api/trades, after getPortfolioRecord(p)
PostTradeTx(trade, p) ==
    IF ~getPortfolioRecordOk(p)
    THEN [TxView(p) EXCEPT !.err = "Portfolio not found"]
    ELSE LET st == [TxView(p) EXCEPT !.cash = CashAfterEnsure(p)[p]]
             tradeCost == trade.qty * trade.price
             currentCash == st.cash
             after ==
                 IF trade.side = "BUY" /\ PostInsufficientCash(currentCash, tradeCost)
                 THEN [st EXCEPT !.err = InsufficientCashError]
                 ELSE LET newCash == IF trade.side = "BUY" THEN currentCash - tradeCost
                                                          ELSE currentCash + tradeCost
                          existingPosition == FindPosition(st.positions, trade.symbol)
                          updated == applyTrade(existingPosition, trade)
                          afterCash == [st EXCEPT !.cash = newCash]
                      IN IF updated.err # ""
                         THEN [afterCash EXCEPT !.err = updated.err]
                         ELSE LET row == [symbol |-> trade.symbol, qty |-> updated.qty,
                                          avgPrice |-> updated.avgPrice]
                                  newRows == IF existingPosition = NoPosition
                                             THEN st.positions \cup {row}
                                             ELSE IF updated.qty = 0
                                                  THEN st.positions \ {existingPosition}
                                                  ELSE (st.positions \ {existingPosition}) \cup {row}
                              IN [afterCash EXCEPT !.positions = newRows,
                                                   !.trades = Append(st.trades, createTradeRecord(trade)),
                                                   !.done = 1]
         IN Transaction(st, after)

(***************************************************************************)
(* Plan validator: extractJson, JSON.parse, arbitragePlanSchema            *)
(*                                                                         *)
(* A response text is a sequence of tokens: a code-fence marker, the       *)
(* language tag "json", white space, prose, the two braces, a JSON number  *)
(* and the member list of a JSON object (named by the plan it encodes).    *)
(***************************************************************************)
FENCE == "fence"      \* three backquotes
JSONTAG == "json"
WS == " "
TXT == "txt"
LB == "{"
RB == "}"
NUM == "42"

NoOrder == [symbol |-> "", action |-> "", quantity10 |-> 0, orderType |-> "",
            hasLimitPrice |-> FALSE, limitPrice |-> 0,
            hasConfidence |-> FALSE, confidence10 |-> 0]

\* an order as the model wrote it; quantity and confidence in tenths
RawOrder(sym, act, q10, ot, hasLp, lp, hasC, c10) ==
    [symbol |-> sym, action |-> act, quantity10 |-> q10, orderType |-> ot,
     hasLimitPrice |-> hasLp, limitPrice |-> lp,
     hasConfidence |-> hasC, confidence10 |-> c10]

Market(sym, act, q) == RawOrder(sym, act, q * 10, "absent", FALSE, 0, FALSE, 0)
Limit(sym, act, q, lp) == RawOrder(sym, act, q * 10, "limit", TRUE, lp, TRUE, 5)
LimitNoPrice(sym, act, q) == RawOrder(sym, act, q * 10, "limit", FALSE, 0, FALSE, 0)

RawPlan(ver, orders) == [version |-> ver, hasGeneratedAt |-> TRUE, arbitrages |-> orders]

\* the JSON objects a response may encode, by the name of their member list
PlanBodies ==
    [ empty       |-> RawPlan("1.0", <<>>),
      buyA        |-> RawPlan("1.0", <<Market("aaa", "BUY", 1)>>),
      buyBig      |-> RawPlan("1.0", <<Limit("AAA", "BUY", 2, 70000)>>),
      buyTwo      |-> RawPlan("1.0", <<Limit("AAA", "BUY", 1, 70000), Limit("BBB", "BUY", 1, 70000)>>),
      sellA       |-> RawPlan("1.0", <<Market("AAA", "SELL", 1)>>),
      limitFirst  |-> RawPlan("1.0", <<LimitNoPrice("BBB", "BUY", 1)>>),
      limitSecond |-> RawPlan("1.0", <<Market("AAA", "BUY", 1), LimitNoPrice("BBB", "BUY", 1)>>),
      full        |-> RawPlan("1.0", [i \in 1..MaxPlanOrders |-> Limit("BBB", "SELL", 1, 30000)]),
      tooMany     |-> RawPlan("1.0", [i \in 1..(MaxPlanOrders + 1) |-> Limit("BBB", "SELL", 1, 30000)]),
      badVersion  |-> RawPlan("2.0", <<Market("AAA", "BUY", 1)>>),
      noTimestamp |-> [version |-> "1.0", hasGeneratedAt |-> FALSE,
                       arbitrages |-> <<Market("AAA", "BUY", 1)>>],
      badSymbol   |-> RawPlan("1.0", <<Market("", "BUY", 1)>>),
      badAction   |-> RawPlan("1.0", <<Market("AAA", "HOLD", 1)>>),
      zeroQty     |-> RawPlan("1.0", <<Market("AAA", "BUY", 0)>>),
      negQty      |-> RawPlan("1.0", <<Market("AAA", "BUY", -1)>>),
      fracQty     |-> RawPlan("1.0", <<RawOrder("AAA", "BUY", 15, "market", FALSE, 0, FALSE, 0)>>),
      badType     |-> RawPlan("1.0", <<RawOrder("AAA", "BUY", 10, "stop", FALSE, 0, FALSE, 0)>>),
      badLimit    |-> RawPlan("1.0", <<Limit("AAA", "BUY", 1, 0)>>),
      badConf     |-> RawPlan("1.0", <<RawOrder("AAA", "BUY", 10, "market", FALSE, 0, TRUE, 11)>>) ]

BodyNames == DOMAIN PlanBodies

\* String.prototype.toUpperCase on the symbols of the model
toUpperCase(sym) ==
    CASE sym = "aaa" -> "AAA"
      [] sym = "bbb" -> "BBB"
      [] OTHER -> sym

\* arbitrageOrderSchema
OrderValid(o) ==
    /\ o.symbol # ""
    /\ o.action \in {"BUY", "SELL"}
    /\ o.quantity10 % 10 = 0
    /\ o.quantity10 > 0
    /\ o.orderType \in {"market", "limit", "absent"}
    /\ o.hasLimitPrice => o.limitPrice > 0
    /\ o.hasConfidence => (o.confidence10 >= 0 /\ o.confidence10 <= 10)

\* the order arbitrageOrderSchema returns: symbol upper-cased, orderType defaulted
OrderData(o) ==
    [symbol |-> toUpperCase(o.symbol), action |-> o.action,
     quantity |-> o.quantity10 \div 10,
     orderType |-> IF o.orderType = "absent" THEN "market" ELSE o.orderType,
     hasLimitPrice |-> o.hasLimitPrice, limitPrice |-> o.limitPrice,
     hasConfidence |-> o.hasConfidence, confidence10 |-> o.confidence10]

NoPlan == [version |-> "", arbitrages |-> <<>>]

\* a schema without the bound on the number of orders
safeParse_NoMax(raw) ==
    IF /\ raw.version = "1.0"
       /\ raw.hasGeneratedAt
       /\ \A i \in 1..Len(raw.arbitrages) : OrderValid(raw.arbitrages[i])
    THEN [success |-> TRUE,
          data |-> [version |-> raw.version,
                    arbitrages |-> [i \in 1..Len(raw.arbitrages) |-> OrderData(raw.arbitrages[i])]]]
    ELSE [success |-> FALSE, data |-> NoPlan]

\* arbitragePlanSchema.safeParse(parsed)
safeParse(raw) ==
    IF /\ raw.version = "1.0"
       /\ raw.hasGeneratedAt
       /\ Len(raw.arbitrages) <= MaxPlanOrders
       /\ \A i \in 1..Len(raw.arbitrages) : OrderValid(raw.arbitrages[i])
    THEN [success |-> TRUE,
          data |-> [version |-> raw.version,
                    arbitrages |-> [i \in 1..Len(raw.arbitrages) |-> OrderData(raw.arbitrages[i])]]]
    ELSE [success |-> FALSE, data |-> NoPlan]

RECURSIVE DropLeadingWs(_)
DropLeadingWs(seq) ==
    IF seq # <<>> /\ Head(seq) = WS THEN DropLeadingWs(Tail(seq)) ELSE seq

RECURSIVE DropTrailingWs(_)
DropTrailingWs(seq) ==
    IF seq # <<>> /\ seq[Len(seq)] = WS
    THEN DropTrailingWs(SubSeq(seq, 1, Len(seq) - 1))
    ELSE seq

\* String.prototype.trim
Trim(seq) == DropTrailingWs(DropLeadingWs(seq))

RECURSIVE RemoveWs(_)
RemoveWs(seq) ==
    IF seq = <<>> THEN <<>>
    ELSE IF Head(seq) = WS THEN RemoveWs(Tail(seq))
         ELSE <<Head(seq)>> \o RemoveWs(Tail(seq))

\* JSON.parse: white space between tokens is skipped; the document is an
\* object with the named member list, the empty object, or a number.
JsonParse(seq) ==
    LET t == RemoveWs(seq)
    IN IF Len(t) = 3 /\ t[1] = LB /\ t[2] \in BodyNames /\ t[3] = RB
       THEN [ok |-> TRUE, value |-> t[2]]
       ELSE IF t = <<LB, RB>> THEN [ok |-> TRUE, value |-> "{}"]
       ELSE IF t = <<NUM>> THEN [ok |-> TRUE, value |-> NUM]
       ELSE [ok |-> FALSE, value |-> ""]

\* content.replace(fence-with-optional-json-tag-and-white-space | fence, "")
RECURSIVE StripFences(_)
StripFences(seq) ==
    IF seq = <<>> THEN <<>>
    ELSE IF Head(seq) = FENCE
         THEN IF Tail(seq) # <<>> /\ Head(Tail(seq)) = JSONTAG
              THEN StripFences(DropLeadingWs(Tail(Tail(seq))))
              ELSE StripFences(Tail(seq))
         ELSE <<Head(seq)>> \o StripFences(Tail(seq))

IndexOf(seq, tok) ==
    IF \E i \in 1..Len(seq) : seq[i] = tok
    THEN CHOOSE i \in 1..Len(seq) : seq[i] = tok /\ \A j \in 1..(i - 1) : seq[j] # tok
    ELSE 0

LastIndexOf(seq, tok) ==
    IF \E i \in 1..Len(seq) : seq[i] = tok
    THEN CHOOSE i \in 1..Len(seq) : seq[i] = tok /\ \A j \in (i + 1)..Len(seq) : seq[j] # tok
    ELSE 0

ExtractionError == "Unable to extract JSON payload from LLM response"

\* the candidate of the catch branch of extractJson: the text from the first
\* "{" to the last "}"; JSON.parse(candidate) throws from inside the handler
BraceCandidate(content) ==
    LET start == IndexOf(content, LB)
        end == LastIndexOf(content, RB)
    IN IF start # 0 /\ end # 0 /\ end > start
       THEN LET candidate == SubSeq(content, start, end)
            IN IF JsonParse(candidate).ok
               THEN [name |-> "", message |-> "", payload |-> candidate]
               ELSE [name |-> "SyntaxError", message |-> "Unexpected token", payload |-> <<>>]
       ELSE [name |-> "Error", message |-> ExtractionError, payload |-> <<>>]

\* extractJson(content): the payload returned, or the error thrown
extractJson(content) ==
    IF content # <<>> /\ Head(content) = FENCE
    THEN [name |-> "", message |-> "", payload |-> Trim(StripFences(content))]
    ELSE IF JsonParse(content).ok
         THEN [name |-> "", message |-> "", payload |-> content]
         ELSE BraceCandidate(content)

SchemaError == "LLM response failed schema validation"

NoError == [name |-> "", message |-> ""]

\* the object JSON.parse returns for a document
JsonObject(value) ==
    IF value \in BodyNames THEN PlanBodies[value]
    ELSE [version |-> "", hasGeneratedAt |-> FALSE, arbitrages |-> <<>>]

\* parseArbitragePlan(content): the validated plan, or the error thrown
parseArbitragePlan(content) ==
    LET normalized == Trim(content)
        jsonPayload == extractJson(normalized)
    IN IF jsonPayload.name # ""
       THEN [err |-> [name |-> jsonPayload.name, message |-> jsonPayload.message],
             parsed |-> "", plan |-> NoPlan]
       ELSE LET parsed == JsonParse(jsonPayload.payload)
            IN IF ~parsed.ok
               THEN [err |-> [name |-> "SyntaxError", message |-> "Unexpected token"],
                     parsed |-> "", plan |-> NoPlan]
               ELSE LET validation == safeParse(JsonObject(parsed.value))
                    IN IF ~validation.success
                       THEN [err |-> [name |-> "Error", message |-> SchemaError],
                             parsed |-> parsed.value, plan |-> NoPlan]
                       ELSE [err |-> NoError, parsed |-> parsed.value,
                             plan |-> validation.data]

NoCall == [op |-> "none", p |-> 0, batch |-> <<>>, err |-> "", done |-> 0, len |-> 0]

Call(op, p, batch, res) ==
    [op |-> op, p |-> p, batch |-> batch, err |-> res.err, done |-> res.done,
     len |-> Len(batch)]

(***************************************************************************)
(* Pricing: buildTradesFromPlan, normalizeOrder, determinePriceForOrder,   *)
(* deriveMarketPrice                                                       *)
(***************************************************************************)
LimitError == "Order is limit but has no limitPrice"
QuantityError == "Invalid quantity"
PricingError == "Unable to derive price for trade"
OracleError == "Yahoo Finance quote failed"

\* what getQuote(symbol) answers: it throws, or a quote with price and
\* previousClose, each a number or null
OracleAnswers ==
    { [throws |-> TRUE, price |-> NoPrice, previousClose |-> NoPrice],
      [throws |-> FALSE, price |-> 30000, previousClose |-> NoPrice],
      [throws |-> FALSE, price |-> NoPrice, previousClose |-> 70000],
      [throws |-> FALSE, price |-> NoPrice, previousClose |-> NoPrice] }

\* one answer of the oracle per attempt, the same for every symbol asked
Oracles == {[s \in Symbols |-> a] : a \in OracleAnswers}

\* the quote of an instrument that does not trade: regularMarketPrice is the
\* number 0, which getQuote passes on as it does any other number
UntradedQuote == [throws |-> FALSE, price |-> 0, previousClose |-> NoPrice]

QuotedOracles == Oracles \cup {[s \in Symbols |-> UntradedQuote]}

\* a derivation that prefers the previous close
deriveMarketPrice_CloseFirst(answer) ==
    IF answer.throws THEN [err |-> OracleError, price |-> NoPrice]
    ELSE IF answer.previousClose # NoPrice THEN [err |-> "", price |-> answer.previousClose]
    ELSE IF answer.price # NoPrice THEN [err |-> "", price |-> answer.price]
    ELSE [err |-> PricingError, price |-> NoPrice]

\* deriveMarketPrice(symbol)
deriveMarketPrice(answer) ==
    IF answer.throws THEN [err |-> OracleError, price |-> NoPrice]
    ELSE IF answer.price # NoPrice THEN [err |-> "", price |-> answer.price]
    ELSE IF answer.previousClose # NoPrice THEN [err |-> "", price |-> answer.previousClose]
    ELSE [err |-> PricingError, price |-> NoPrice]

\* normalizeOrder(order): the error thrown, or ""
normalizeOrder(order) ==
    IF order.quantity <= 0 THEN QuantityError
    ELSE IF order.orderType = "limit" /\ ~order.hasLimitPrice THEN LimitError
    ELSE ""

\* determinePriceForOrder(order, context)
determinePriceForOrder(order, quotes, orc) ==
    IF order.orderType = "limit" /\ order.hasLimitPrice /\ order.limitPrice # 0
    THEN [err |-> "", price |-> order.limitPrice, oracle |-> 0]
    ELSE IF order.symbol \in DOMAIN quotes /\ quotes[order.symbol] # NoPrice
         THEN [err |-> "", price |-> quotes[order.symbol], oracle |-> 0]
         ELSE LET d == deriveMarketPrice(orc[order.symbol])
              IN [err |-> d.err, price |-> d.price, oracle |-> 1]

\* buildTradesFromPlan(plan, context): the loop over plan.arbitrages from
\* order i on; acc = [err, trades, lookups, oracleCalls]
RECURSIVE buildTradesFrom(_, _, _, _, _)
buildTradesFrom(orders, i, quotes, orc, acc) ==
    IF i > Len(orders) THEN acc
    ELSE LET order == orders[i]
             normErr == normalizeOrder(order)
         IN IF normErr # ""
            THEN [acc EXCEPT !.err = normErr]
            ELSE LET priced == determinePriceForOrder(order, quotes, orc)
                     looked == [acc EXCEPT !.lookups = acc.lookups + 1,
                                           !.oracleCalls = acc.oracleCalls + priced.oracle]
                 IN IF priced.err # ""
                    THEN [looked EXCEPT !.err = priced.err]
                    ELSE buildTradesFrom(orders, i + 1, quotes, orc,
                             [looked EXCEPT !.trades = Append(acc.trades,
                                 [symbol |-> order.symbol, side |-> order.action,
                                  qty |-> order.quantity, price |-> priced.price])])

buildTradesFromPlan(plan, quotes, orc) ==
    buildTradesFrom(plan.arbitrages, 1, quotes, orc,
                    [err |-> "", trades |-> <<>>, lookups |-> 0, oracleCalls |-> 0])

(***************************************************************************)
(* The plan runner: runLlmPlan                                             *)
(***************************************************************************)
ProviderError == "LLM provider request failed"
NotFoundError == "Portfolio not found"
PortfolioMissing == "Portfolio with ID not found"

NoQuotes == [s \in Symbols |-> NoPrice]

\* the quotes the Price Oracle may give for the held symbols when the context
\* is built
QuoteChoices ==
    { [s \in Symbols |-> IF s = "AAA" THEN 30000 ELSE NoPrice],
      [s \in Symbols |-> IF s = "BBB" THEN 70000 ELSE NoPrice] }

HeldSymbols(p) == {r.symbol : r \in positions[p]}

\* context.raw.quotes of buildExecutionContext: one entry per held symbol
ContextQuotes(p) ==
    {[s \in Symbols |-> IF s \in HeldSymbols(p) THEN c[s] ELSE NoPrice] : c \in QuoteChoices}

NoRunError == [name |-> "", message |-> "", hasResult |-> FALSE,
               plan |-> NoPlan, trades |-> <<>>, executed |-> FALSE]

PlainError(name, message) ==
    [name |-> name, message |-> message, hasResult |-> FALSE,
     plan |-> NoPlan, trades |-> <<>>, executed |-> FALSE]

\* new LlmPlanExecutionError(message, baseResult)
LlmPlanExecutionError(message, plan, tradeList) ==
    [name |-> "LlmPlanExecutionError", message |-> message, hasResult |-> TRUE,
     plan |-> plan, trades |-> tradeList, executed |-> FALSE]

NoRun ==
    [pc |-> "idle", p |-> 0, dryRun |-> FALSE, attempt |-> 0, quotes |-> NoQuotes,
     body |-> "", plan |-> NoPlan, trades |-> <<>>, executed |-> FALSE,
     error |-> NoRunError, lastErr |-> "", lookups |-> 0,
     providerCalls |-> 0, ledgerCalls |-> 0, commits |-> 0, rejectedAt |-> 0]

\* a loop that goes round once more before it rethrows
Catch_OffByOne(r, err) ==
    IF r.attempt > MAX_PLAN_ATTEMPTS
    THEN [r EXCEPT !.pc = "threw", !.error = err, !.quotes = NoQuotes]
    ELSE [r EXCEPT !.pc = "invoke", !.attempt = r.attempt + 1]

\* the catch block of the attempt loop: rethrow on the last attempt, else
\* go round the loop again
Catch(r, err) ==
    IF r.attempt >= MAX_PLAN_ATTEMPTS
    THEN [r EXCEPT !.pc = "threw", !.error = err, !.quotes = NoQuotes]
    ELSE [r EXCEPT !.pc = "invoke", !.attempt = r.attempt + 1]

\* a return that forgets the dry-run flag
SkipLedger_IgnoresDryRun(dryRun, tradeList) == Len(tradeList) = 0

\* if (dryRun || trades.length === 0) return baseResult
SkipLedger(dryRun, tradeList) == dryRun \/ Len(tradeList) = 0

\* an attempt failed with message msg before a plan was priced
FailedAttempt(r, name, msg, lookups) ==
    [Catch(r, PlainError(name, msg)) EXCEPT
        !.lastErr = msg, !.body = "", !.plan = NoPlan, !.trades = <<>>,
        !.lookups = lookups]

\* runLlmPlan up to the attempt loop: getPortfolioRecord, buildExecutionContext
StartRun(p, dryRun) ==
    /\ run.pc \in {"idle", "returned", "threw"}
    /\ IF ~getPortfolioRecordOk(p)
       THEN /\ run' = [NoRun EXCEPT !.pc = "threw", !.p = p, !.dryRun = dryRun,
                                    !.error = PlainError("Error", PortfolioMissing)]
            /\ UNCHANGED <<exists, cash>>
       ELSE /\ exists' = EnsureExists(p)
            /\ cash' = CashAfterEnsure(p)
            /\ \/ \E q \in ContextQuotes(p) :
                     run' = [NoRun EXCEPT !.pc = "invoke", !.p = p, !.dryRun = dryRun,
                                          !.attempt = 1, !.quotes = q]
               \/ /\ HeldSymbols(p) # {}
                  /\ run' = [NoRun EXCEPT !.pc = "threw", !.p = p, !.dryRun = dryRun,
                                          !.error = PlainError("Error", OracleError)]
    /\ UNCHANGED <<positions, trades, lastCall, text, extracted, book, url, http, admin, ctx, route, pricing, execution>>

\* callProvider throws (transport error, non-2xx, error envelope, no content)
ProviderFails ==
    /\ run.pc = "invoke"
    /\ run' = FailedAttempt([run EXCEPT !.providerCalls = run.providerCalls + 1],
                            "Error", ProviderError, 0)
    /\ UNCHANGED <<exists, cash, positions, trades, lastCall, text, extracted, book, url, http, admin, ctx, route, pricing, execution>>

\* the response texts of the runs
Responses ==
    {<<LB, b, RB>> : b \in BodyNames}
    \cup { <<FENCE, JSONTAG, WS, LB, "buyA", RB, WS, FENCE>>,
           <<TXT, LB, "buyA", RB, TXT>>,
           <<TXT>>,
           <<LB, TXT, RB>>,
           <<FENCE, TXT, FENCE>>,
           <<NUM>> }

\* parseArbitragePlan on each response text
ParsedResponse == [c \in Responses |-> parseArbitragePlan(c)]

\* callProvider returns content; parseArbitragePlan, buildTradesFromPlan and
\* the dry-run / zero-order return
ProviderResponds(content, orc) ==
    /\ run.pc = "invoke"
    /\ LET called == [run EXCEPT !.providerCalls = run.providerCalls + 1]
           parsed == ParsedResponse[content]
           built == buildTradesFromPlan(parsed.plan, run.quotes, orc)
       IN run' =
            IF parsed.err.name # ""
            THEN FailedAttempt(called, parsed.err.name, parsed.err.message, 0)
            ELSE IF built.err # ""
                 THEN FailedAttempt(called, "Error", built.err, built.lookups)
                 ELSE LET priced == [called EXCEPT !.body = parsed.parsed, !.plan = parsed.plan,
                                                   !.trades = built.trades, !.lastErr = "",
                                                   !.lookups = built.lookups]
                      IN IF SkipLedger(run.dryRun, built.trades)
                         THEN [priced EXCEPT !.pc = "returned", !.executed = FALSE,
                                             !.quotes = NoQuotes]
                         ELSE [priced EXCEPT !.pc = "execute"]
    /\ UNCHANGED <<exists, cash, positions, trades, lastCall, text, extracted, book, url, http, admin, ctx, route, pricing, execution>>

\* executeTradeInputs(trades, portfolioId) of the attempt, then
\* buildPortfolioSnapshot; snapshotOk = FALSE when a quote fetch of the
\* snapshot throws
ExecuteTrades(snapshotOk) ==
    /\ run.pc = "execute"
    /\ LET p == run.p
           res == executeTradeInputs(run.trades, p)
           called == [run EXCEPT !.ledgerCalls = run.ledgerCalls + 1]
       IN /\ cash' = [cash EXCEPT ![p] = res.cash]
          /\ positions' = [positions EXCEPT ![p] = res.positions]
          /\ trades' = [trades EXCEPT ![p] = res.trades]
          /\ lastCall' = Call("executeTradeInputs", p, run.trades, res)
          /\ IF res.err # ""
             THEN /\ snapshotOk
                  /\ run' = [Catch([called EXCEPT !.rejectedAt =
                                        IF run.rejectedAt = 0 THEN run.attempt ELSE run.rejectedAt],
                                   LlmPlanExecutionError(res.err, run.plan, run.trades))
                             EXCEPT !.lastErr = res.err]
             ELSE LET committed == [called EXCEPT !.commits = run.commits + 1]
                  IN IF snapshotOk
                     THEN run' = [committed EXCEPT !.pc = "returned", !.executed = TRUE,
                                                   !.quotes = NoQuotes]
                     ELSE /\ res.positions # {}
                          /\ run' = [Catch(committed, PlainError("Error", OracleError))
                                     EXCEPT !.lastErr = OracleError]
    /\ UNCHANGED <<exists, text, extracted, book, url, http, admin, ctx, route, pricing, execution>>

\* a fresh position and no fill yet; fills holds the BUY fills applied since
\* the position was fresh, as long as no SELL has touched it (buysOnly)
NoBook == [position |-> NoPosition, fills |-> <<>>, buysOnly |-> TRUE, err |-> ""]

\* no address under check
NoUrl == [base |-> <<>>, built |-> <<>>, again |-> <<>>, done |-> FALSE]

\* no invocation of callProvider yet
NoHttp ==
    [pc |-> "idle", type |-> "", hint |-> FALSE, requests |-> <<>>, answers |-> <<>>,
     content |-> "", error |-> [kind |-> "", status |-> 0, body |-> ""]]


NoAdminCall == [op |-> "", id |-> 0, portfolioId |-> 0, isDefault |-> "undefined", status |-> 0]

NoAdmin ==
    [providers |-> {}, nextProviderId |-> 1,
     prompts |-> {}, nextPromptId |-> 1,
     last |-> NoAdminCall]


\* no context build under way
NoCtx ==
    [held |-> {}, quoteDown |-> {}, historyDown |-> {}, pc |-> "idle",
     histories |-> [s \in Symbols |-> "absent"], error |-> "", providerCalls |-> 0]


\* no execution record
NoExecution == [status |-> "none", promptId |-> 0, providerId |-> 0]

\* no run request made: empty tables
NoRoute ==
    [providers |-> {}, prompts |-> {},
     pc |-> "idle", portfolioId |-> 0, promptId |-> 0, providerId |-> 0,
     prompt |-> 0, provider |-> 0, status |-> 0, error |-> "",
     execution |-> NoExecution]


\* no plan priced
NoPricing ==
    [orders |-> <<>>, quotes |-> [s \in {"AAA", "BBB"} |-> -1],
     oracle |-> [throws |-> FALSE, price |-> -1, previousClose |-> -1],
     done |-> FALSE, err |-> "", trades |-> <<>>]


\* no LlmExecution record created
NoRecord ==
    [status |-> "none", dryRun |-> FALSE, updates |-> 0, answered |-> FALSE,
     hasPlan |-> FALSE, executedOrders |-> <<>>, errorMessage |-> ""]

Init ==
    /\ exists = {}
    /\ cash = [p \in Portfolios |-> 0]
    /\ positions = [p \in Portfolios |-> {}]
    /\ trades = [p \in Portfolios |-> <<>>]
    /\ run = NoRun
    /\ lastCall = NoCall
    /\ text = <<>>
    /\ extracted = [kind |-> "none", name |-> "", message |-> "", parsed |-> ""]
    /\ book = NoBook
    /\ url = NoUrl
    /\ http = NoHttp
    /\ admin = NoAdmin
    /\ ctx = NoCtx
    /\ route = NoRoute
    /\ pricing = NoPricing
    /\ execution = NoRecord

\* POST /api/trades with an explicit price
PostTrade(p, trade) ==
    /\ getPortfolioRecordOk(p)
    /\ LET res == PostTradeTx(trade, p)
       IN /\ exists' = EnsureExists(p)
          /\ cash' = [cash EXCEPT ![p] = res.cash]
          /\ positions' = [positions EXCEPT ![p] = res.positions]
          /\ trades' = [trades EXCEPT ![p] = res.trades]
          /\ lastCall' = Call("postTrade", p, <<trade>>, res)
    /\ UNCHANGED <<run, text, extracted, book, url, http, admin, ctx, route, pricing, execution>>

\* a reset whose deletes and update carry no portfolio filter
ResetPortfolio_EveryPortfolio(p) ==
    /\ getPortfolioRecordOk(p)
    /\ exists' = EnsureExists(p)
    /\ cash' = [q \in Portfolios |-> IF q \in exists' THEN INITIAL_CASH_BALANCE ELSE cash[q]]
    /\ positions' = [q \in Portfolios |-> {}]
    /\ trades' = [q \in Portfolios |-> <<>>]
    /\ UNCHANGED <<run, lastCall, text, extracted, book, url, http, admin, ctx, route, pricing, execution>>

\* POST /api/portfolios/:id/reset
ResetPortfolio(p) ==
    /\ getPortfolioRecordOk(p)
    /\ exists' = EnsureExists(p)
    /\ cash' = [cash EXCEPT ![p] = INITIAL_CASH_BALANCE]
    /\ positions' = [positions EXCEPT ![p] = {}]
    /\ trades' = [trades EXCEPT ![p] = <<>>]
    /\ UNCHANGED <<run, lastCall, text, extracted, book, url, http, admin, ctx, route, pricing, execution>>

\* executeTradeInputs(batch, p) called on its own
ExecBatch(p, batch) ==
    /\ LET res == executeTradeInputs(batch, p)
       IN /\ cash' = [cash EXCEPT ![p] = res.cash]
          /\ positions' = [positions EXCEPT ![p] = res.positions]
          /\ trades' = [trades EXCEPT ![p] = res.trades]
          /\ lastCall' = Call("executeTradeInputs", p, batch, res)
    /\ UNCHANGED <<exists, run, text, extracted, book, url, http, admin, ctx, route, pricing, execution>>

\* the plan runner over a ledger that runs and resets change
Next ==
    \/ \E p \in Desk : ResetPortfolio(p)
    \/ \E p \in Portfolios, d \in BOOLEAN : StartRun(p, d)
    \/ ProviderFails
    \/ \E c \in Responses, orc \in Oracles : ProviderResponds(c, orc)
    \/ \E ok \in BOOLEAN :
          /\ run.pc = "execute"
          /\ Len(trades[run.p]) + Len(run.trades) <= MaxTrades
             \/ executeTradeInputs(run.trades, run.p).err # ""
          /\ ExecuteTrades(ok)

Spec == Init /\ [][Next]_vars

\* the plan runner when the market data source may also quote an instrument
\* that does not trade
NextQuoted ==
    \/ \E p \in Desk : ResetPortfolio(p)
    \/ \E p \in Portfolios, d \in BOOLEAN : StartRun(p, d)
    \/ ProviderFails
    \/ \E c \in Responses, orc \in QuotedOracles : ProviderResponds(c, orc)
    \/ \E ok \in BOOLEAN :
          /\ run.pc = "execute"
          /\ Len(trades[run.p]) + Len(run.trades) <= MaxTrades
             \/ executeTradeInputs(run.trades, run.p).err # ""
          /\ ExecuteTrades(ok)

SpecQuoted == Init /\ [][NextQuoted]_vars

(***************************************************************************)
(* The ledger under manual trades, batches and resets                      *)
(***************************************************************************)
Batches == UNION {[1..n -> TradeInputs] : n \in 0..MaxBatch}

NextLedger ==
    \/ \E p \in Desk, t \in TradeInputs : Len(trades[p]) < MaxLedgerRows /\ PostTrade(p, t)
    \/ \E p \in Desk : ResetPortfolio(p)
    \/ \E p \in Desk, b \in Batches :
          /\ Len(trades[p]) + Len(b) <= MaxLedgerRows
          /\ ExecBatch(p, b)

SpecLedger == Init /\ [][NextLedger]_vars

(***************************************************************************)
(* The extraction of a plan from every response text of bounded length     *)
(***************************************************************************)
Tokens == {FENCE, JSONTAG, WS, TXT, LB, RB, "buyA"}

Texts == UNION {[1..n -> Tokens] : n \in 0..MaxTextLen}

NotExtracted == [kind |-> "none", name |-> "", message |-> "", parsed |-> ""]

InitExtract ==
    /\ exists = {}
    /\ cash = [p \in Portfolios |-> 0]
    /\ positions = [p \in Portfolios |-> {}]
    /\ trades = [p \in Portfolios |-> <<>>]
    /\ run = NoRun
    /\ lastCall = NoCall
    /\ text \in Texts
    /\ extracted = NotExtracted
    /\ book = NoBook
    /\ url = NoUrl
    /\ http = NoHttp
    /\ admin = NoAdmin
    /\ ctx = NoCtx
    /\ route = NoRoute
    /\ pricing = NoPricing
    /\ execution = NoRecord

\* parseArbitragePlan(text)
Extract ==
    /\ extracted.kind = "none"
    /\ LET r == parseArbitragePlan(text)
       IN extracted' = [kind |-> IF r.err.name = "" THEN "ok" ELSE "error",
                        name |-> r.err.name, message |-> r.err.message,
                        parsed |-> r.parsed]
    /\ UNCHANGED <<exists, cash, positions, trades, run, lastCall, text, book, url, http, admin, ctx, route, pricing, execution>>

NextExtract == Extract

SpecExtract == InitExtract /\ [][NextExtract]_vars

(***************************************************************************)
(* applyTrade folded over sequences of fills on one position               *)
(***************************************************************************)
FillPrices == {100, 120, 130}

FillInputs == [symbol : {"AAA"}, side : {"BUY", "SELL"}, qty : 1..MaxFillQty, price : FillPrices]

MaxHeld == MaxFills * MaxFillQty

\* applyTrade(position, t) and the row the ledger keeps of its result: created,
\* updated, or deleted when the quantity is zero
Fill(t) ==
    /\ t.side = "BUY" =>
          (book.position.qty + t.qty <= MaxHeld
           /\ (book.buysOnly => Len(book.fills) < MaxFills))
    /\ LET updated == applyTrade(book.position, t)
       IN book' =
            IF updated.err # ""
            THEN [book EXCEPT !.err = updated.err]
            ELSE IF updated.qty = 0
            THEN NoBook
            ELSE [position |-> [symbol |-> t.symbol, qty |-> updated.qty,
                                avgPrice |-> updated.avgPrice],
                  fills |-> IF t.side = "BUY" /\ book.buysOnly
                            THEN Append(book.fills, t) ELSE <<>>,
                  buysOnly |-> t.side = "BUY" /\ book.buysOnly,
                  err |-> ""]
    /\ UNCHANGED <<exists, cash, positions, trades, run, lastCall, text, extracted, url, http, admin, ctx, route, pricing, execution>>

NextPosition == \E t \in FillInputs : Fill(t)

SpecPosition == Init /\ [][NextPosition]_vars

(***************************************************************************)
(* buildChatCompletionsUrl over API base addresses                         *)
(*                                                                         *)
(* An address is a sequence of atoms: the scheme "https:", the slash, white *)
(* space, the path words "chat" and "completions", a name that starts with *)
(* v and a digit ("v1", "v1beta", "v100:8000") and any other name ("x").    *)
(***************************************************************************)
SCHEME == "https:"
SLASH == "/"
VNAME == "v1"
NAME == "x"
CHAT == "chat"
COMPLETIONS == "completions"

UrlAtoms == {SCHEME, SLASH, VNAME, NAME, CHAT, COMPLETIONS, WS}

RECURSIVE DropTrailingSlashes(_)
DropTrailingSlashes(seq) ==
    IF seq # <<>> /\ seq[Len(seq)] = SLASH
    THEN DropTrailingSlashes(SubSeq(seq, 1, Len(seq) - 1))
    ELSE seq

\* apiBase.trim().replace(/\/+$/, "")
normalizeBase(apiBase) == DropTrailingSlashes(Trim(apiBase))

\* /\/v\d[^/]*$/i : a slash, then a name that starts with v and a digit, then
\* no further slash up to the end
endsWithVersionSegment(value) ==
    \E i \in 1..(Len(value) - 1) :
        /\ value[i] = SLASH
        /\ value[i + 1] = VNAME
        /\ \A j \in (i + 2)..Len(value) : value[j] # SLASH

\* /\/chat\/completions$/i
endsWithChatCompletions(value) ==
    /\ Len(value) >= 4
    /\ SubSeq(value, Len(value) - 3, Len(value)) = <<SLASH, CHAT, SLASH, COMPLETIONS>>

buildChatCompletionsUrl(apiBase) ==
    LET normalized == normalizeBase(apiBase)
    IN IF endsWithChatCompletions(normalized)
       THEN normalized
       ELSE IF endsWithVersionSegment(normalized)
       THEN normalized \o <<SLASH, CHAT, SLASH, COMPLETIONS>>
       ELSE normalized \o <<SLASH, VNAME, SLASH, CHAT, SLASH, COMPLETIONS>>

\* the origins an address starts with: none, a host, a host whose name starts
\* with v and a digit
Origins == {<<>>, <<SCHEME, SLASH, SLASH, NAME>>, <<SCHEME, SLASH, SLASH, VNAME>>}

\* the sequences of at most len atoms
UrlTails(len) == UNION {[1..n -> UrlAtoms] : n \in 0..len}

ApiBases(len) == {o \o t : o \in Origins, t \in UrlTails(len)}

InitUrl ==
    /\ exists = {}
    /\ cash = [p \in Portfolios |-> 0]
    /\ positions = [p \in Portfolios |-> {}]
    /\ trades = [p \in Portfolios |-> <<>>]
    /\ run = NoRun
    /\ lastCall = NoCall
    /\ text = <<>>
    /\ extracted = NotExtracted
    /\ book = NoBook
    /\ url \in {[NoUrl EXCEPT !.base = b] : b \in ApiBases(MaxUrlLen)}
    /\ http = NoHttp
    /\ admin = NoAdmin
    /\ ctx = NoCtx
    /\ route = NoRoute
    /\ pricing = NoPricing
    /\ execution = NoRecord

\* buildChatCompletionsUrl(base), and the same applied to its result
BuildUrl ==
    /\ ~url.done
    /\ url' = [url EXCEPT !.built = buildChatCompletionsUrl(url.base),
                          !.again = buildChatCompletionsUrl(buildChatCompletionsUrl(url.base)),
                          !.done = TRUE]
    /\ UNCHANGED <<exists, cash, positions, trades, run, lastCall, text, extracted, book, http, admin, ctx, route, pricing, execution>>

NextUrl == BuildUrl

SpecUrl == InitUrl /\ [][NextUrl]_vars

(***************************************************************************)
(* callProvider: one invocation of a provider adapter, request by request  *)
(***************************************************************************)
OpenAiFamily == {"openai-compatible", "local"}

ProviderTypes == OpenAiFamily \cup {"google-gemini", "anthropic"}

\* provider.type as the adapter may receive it, inside and outside the enum
GivenTypes == ProviderTypes \cup {"other"}

\* the endpoints a request can go to: buildChatCompletionsUrl(apiBase), and
\* the same address with the version segment left out
VERSIONED == "versioned"
STRIPPED == "stripped"

\* HTTP answers: a 2xx answer carries a JSON body with or without an error
\* envelope (with or without a message in it) and an assistant content that
\* is missing, null, empty, blank or a text; any other answer carries a text.
OkAnswers ==
    [status : {200}, err : {"none", "message", "nomessage"},
     content : {"missing", "null", "empty", "blank", "text"}, body : {"json"}]

FailAnswers ==
    [status : {401, 404, 500}, err : {"none"}, content : {"missing"}, body : {"t1", "t2"}]

HttpAnswers == OkAnswers \cup FailAnswers

\* response.ok
ResponseOk(answer) == answer.status >= 200 /\ answer.status < 300

RequestFailed(answer) ==
    [kind |-> "LLM provider request failed", status |-> answer.status, body |-> answer.body]

ProviderErrorEnvelope == [kind |-> "LLM provider error", status |-> 200, body |-> "json"]

NoContentError == [kind |-> "LLM provider returned no content", status |-> 200, body |-> "json"]

UnsupportedType == [kind |-> "Unsupported provider type", status |-> 0, body |-> ""]

NoHttpError == [kind |-> "", status |-> 0, body |-> ""]

\* !content : the OpenAI-compatible adapter tests the content as it is, the
\* Gemini and Anthropic adapters join the text parts and trim them first
ContentMissing(type, content) ==
    IF type \in OpenAiFamily
    THEN content \in {"missing", "null", "empty"}
    ELSE content \in {"missing", "null", "empty", "blank"}

\* the adapter's handling of the last answer: status, error envelope, content
Settle(h, answer) ==
    IF ~ResponseOk(answer)
    THEN [h EXCEPT !.pc = "threw", !.error = RequestFailed(answer)]
    ELSE IF answer.err = "message"
    THEN [h EXCEPT !.pc = "threw", !.error = ProviderErrorEnvelope]
    ELSE IF ContentMissing(h.type, answer.content)
    THEN [h EXCEPT !.pc = "threw", !.error = NoContentError]
    ELSE [h EXCEPT !.pc = "returned", !.content = answer.content]

\* !response.ok && payload.response_format, after the first fetch
SendsFallback(h, answer) ==
    /\ h.type \in OpenAiFamily
    /\ Len(h.requests) = 1
    /\ ~ResponseOk(answer)
    /\ h.hint

\* callProvider(provider, payload) up to its first fetch
CallProvider(type, hint) ==
    /\ http.pc = "idle"
    /\ http' = IF type \in ProviderTypes
               THEN [NoHttp EXCEPT !.pc = "waiting", !.type = type, !.hint = hint,
                                   !.requests = <<[url |-> VERSIONED,
                                                   hint |-> hint /\ type \in OpenAiFamily]>>,
                                   !.error = NoHttpError]
               ELSE [NoHttp EXCEPT !.pc = "threw", !.type = type, !.hint = hint,
                                   !.error = UnsupportedType]
    /\ UNCHANGED <<exists, cash, positions, trades, run, lastCall, text, extracted, book, url, admin, ctx, route, pricing, execution>>

\* the pending fetch resolves with answer and the adapter runs on to its next
\* fetch, its return or its throw
FetchResolves(answer) ==
    /\ http.pc = "waiting"
    /\ LET h == [http EXCEPT !.answers = Append(http.answers, answer)]
       IN http' = IF SendsFallback(h, answer)
                  THEN [h EXCEPT !.requests = Append(h.requests,
                                                     [url |-> VERSIONED, hint |-> FALSE])]
                  ELSE Settle(h, answer)
    /\ UNCHANGED <<exists, cash, positions, trades, run, lastCall, text, extracted, book, url, admin, ctx, route, pricing, execution>>

NextProvider ==
    \/ \E type \in GivenTypes, hint \in BOOLEAN : CallProvider(type, hint)
    \/ \E answer \in HttpAnswers : FetchResolves(answer)

SpecProvider == Init /\ [][NextProvider]_vars

(***************************************************************************)
(* The provider and prompt administration routes                           *)
(***************************************************************************)
\* an optional boolean of a request body: absent, true or false
OptionalBooleans == {"undefined", "true", "false"}

\* body.isDefault as a condition, and body.isDefault ?? false
Truthy(v) == v = "true"

\* the bodies of provider requests, and of prompt requests (providerId absent,
\* written 0, or the id of the first provider made)
ProviderBodies == [isDefault : OptionalBooleans]

PromptBodies == [isDefault : OptionalBooleans, providerId : {0, 1}]

\* the record of a request: the operation and the status answered, and for a
\* create or update that succeeded the row and the isDefault of the body
AdminCall(op, id, portfolioId, isDefault, status) ==
    [op |-> op, id |-> id, portfolioId |-> portfolioId, isDefault |-> isDefault,
     status |-> status]

providerExists(id) == \E r \in admin.providers : r.id = id

promptFound(id, portfolioId) ==
    \E r \in admin.prompts : r.id = id /\ r.portfolioId = portfolioId

\* tx.llmProvider.updateMany({data: {isDefault: false}}) on every row but exceptId
ClearProviderDefaults_Skipped(rows, exceptId) == rows

ClearProviderDefaults(rows, exceptId) ==
    {IF r.id # exceptId THEN [r EXCEPT !.isDefault = FALSE] ELSE r : r \in rows}

\* tx.portfolioPrompt.updateMany({where: {portfolioId, NOT: {id}}, data: {isDefault: false}})
ClearPromptDefaults(rows, portfolioId, exceptId) ==
    {IF r.portfolioId = portfolioId /\ r.id # exceptId
     THEN [r EXCEPT !.isDefault = FALSE] ELSE r : r \in rows}

\* tx.<table>.update({where: {id}, data}) with data.isDefault set when given
UpdateRow(rows, id, body) ==
    {IF r.id = id /\ body.isDefault # "undefined"
     THEN [r EXCEPT !.isDefault = Truthy(body.isDefault)] ELSE r : r \in rows}

\* POST /api/portfolios
CreatePortfolio(p) ==
    /\ p \notin exists
    /\ exists' = exists \cup {p}
    /\ cash' = [cash EXCEPT ![p] = INITIAL_CASH_BALANCE]
    /\ admin' = [admin EXCEPT !.last = AdminCall("POST portfolio", 0, 0, "undefined", 201)]
    /\ UNCHANGED <<positions, trades, run, lastCall, text, extracted, book, url, http, ctx, route, pricing, execution>>

\* DELETE /api/portfolios/:id; the prompts of the portfolio go with it
\* (ON DELETE CASCADE)
DeletePortfolio(p) ==
    /\ p # DEFAULT_PORTFOLIO_ID
    /\ p \in exists
    /\ exists' = exists \ {p}
    /\ cash' = [cash EXCEPT ![p] = 0]
    /\ positions' = [positions EXCEPT ![p] = {}]
    /\ trades' = [trades EXCEPT ![p] = <<>>]
    /\ admin' = [admin EXCEPT
                    !.prompts = {r \in @ : r.portfolioId # p},
                    !.last = AdminCall("DELETE portfolio", 0, 0, "undefined", 200)]
    /\ UNCHANGED <<run, lastCall, text, extracted, book, url, http, ctx, route, pricing, execution>>

\* POST /api/llm/providers
CreateProvider(body) ==
    LET id == admin.nextProviderId
        cleared == IF Truthy(body.isDefault)
                   THEN ClearProviderDefaults(admin.providers, 0)
                   ELSE admin.providers
    IN /\ admin' = [admin EXCEPT
                      !.providers = cleared \cup {[id |-> id, isDefault |-> Truthy(body.isDefault)]},
                      !.nextProviderId = id + 1,
                      !.last = AdminCall("POST provider", id, 0, body.isDefault, 201)]
       /\ UNCHANGED <<exists, cash, positions, trades, run, lastCall, text, extracted, book, url, http, ctx, route, pricing, execution>>

\* PUT /api/llm/providers/:id
UpdateProvider(id, body) ==
    /\ admin' =
          IF ~providerExists(id)
          THEN [admin EXCEPT !.last = AdminCall("PUT provider", 0, 0, "undefined", 404)]
          ELSE LET cleared == IF Truthy(body.isDefault)
                              THEN ClearProviderDefaults(admin.providers, id)
                              ELSE admin.providers
               IN [admin EXCEPT
                      !.providers = UpdateRow(cleared, id, body),
                      !.last = AdminCall("PUT provider", id, 0, body.isDefault, 200)]
    /\ UNCHANGED <<exists, cash, positions, trades, run, lastCall, text, extracted, book, url, http, ctx, route, pricing, execution>>

\* DELETE /api/llm/providers/:id
DeleteProvider(id) ==
    /\ admin' =
          IF ~providerExists(id)
          THEN [admin EXCEPT !.last = AdminCall("DELETE provider", 0, 0, "undefined", 400)]
          ELSE [admin EXCEPT
                  !.providers = {r \in @ : r.id # id},
                  !.last = AdminCall("DELETE provider", 0, 0, "undefined", 200)]
    /\ UNCHANGED <<exists, cash, positions, trades, run, lastCall, text, extracted, book, url, http, ctx, route, pricing, execution>>

\* POST /api/portfolios/:id/prompts
CreatePrompt(p, body) ==
    LET id == admin.nextPromptId
        cleared == IF Truthy(body.isDefault)
                   THEN ClearPromptDefaults(admin.prompts, p, 0)
                   ELSE admin.prompts
    IN IF ~getPortfolioRecordOk(p)
       THEN /\ admin' = [admin EXCEPT
                           !.last = AdminCall("POST prompt", 0, 0, "undefined", 400)]
            /\ UNCHANGED <<exists, cash, positions, trades, run, lastCall, text, extracted,
                           book, url, http, ctx, route, pricing, execution>>
       ELSE /\ exists' = EnsureExists(p)
            /\ cash' = CashAfterEnsure(p)
            /\ admin' =
                  IF body.providerId # 0 /\ ~providerExists(body.providerId)
                  THEN [admin EXCEPT
                          !.last = AdminCall("POST prompt", 0, 0, "undefined", 404)]
                  ELSE [admin EXCEPT
                          !.prompts = cleared \cup {[id |-> id, portfolioId |-> p,
                                                     isDefault |-> Truthy(body.isDefault)]},
                          !.nextPromptId = id + 1,
                          !.last = AdminCall("POST prompt", id, p, body.isDefault, 201)]
            /\ UNCHANGED <<positions, trades, run, lastCall, text, extracted, book, url, http, ctx, route, pricing, execution>>

\* PUT /api/portfolios/:id/prompts/:promptId
UpdatePrompt(p, id, body) ==
    IF ~getPortfolioRecordOk(p)
    THEN /\ admin' = [admin EXCEPT
                        !.last = AdminCall("PUT prompt", 0, 0, "undefined", 400)]
         /\ UNCHANGED <<exists, cash, positions, trades, run, lastCall, text, extracted,
                        book, url, http, ctx, route, pricing, execution>>
    ELSE /\ exists' = EnsureExists(p)
         /\ cash' = CashAfterEnsure(p)
         /\ admin' =
               IF \/ ~promptFound(id, p)
                  \/ body.providerId # 0 /\ ~providerExists(body.providerId)
               THEN [admin EXCEPT
                       !.last = AdminCall("PUT prompt", 0, 0, "undefined", 404)]
               ELSE LET cleared == IF Truthy(body.isDefault)
                                   THEN ClearPromptDefaults(admin.prompts, p, id)
                                   ELSE admin.prompts
                    IN [admin EXCEPT
                          !.prompts = UpdateRow(cleared, id, body),
                          !.last = AdminCall("PUT prompt", id, p, body.isDefault, 200)]
         /\ UNCHANGED <<positions, trades, run, lastCall, text, extracted, book, url, http, ctx, route, pricing, execution>>

\* DELETE /api/portfolios/:id/prompts/:promptId
DeletePrompt(p, id) ==
    /\ admin' =
          IF ~promptFound(id, p)
          THEN [admin EXCEPT !.last = AdminCall("DELETE prompt", 0, 0, "undefined", 404)]
          ELSE [admin EXCEPT
                  !.prompts = {r \in @ : r.id # id},
                  !.last = AdminCall("DELETE prompt", 0, 0, "undefined", 200)]
    /\ UNCHANGED <<exists, cash, positions, trades, run, lastCall, text, extracted, book, url, http, ctx, route, pricing, execution>>

NextAdmin ==
    \/ \E p \in Portfolios : CreatePortfolio(p)
    \/ \E p \in Portfolios : DeletePortfolio(p)
    \/ \E body \in ProviderBodies :
          admin.nextProviderId <= MaxAdminRows /\ CreateProvider(body)
    \/ \E id \in 1..MaxAdminRows, body \in ProviderBodies : UpdateProvider(id, body)
    \/ \E id \in 1..MaxAdminRows : DeleteProvider(id)
    \/ \E p \in Portfolios, body \in PromptBodies :
          admin.nextPromptId <= MaxAdminRows /\ CreatePrompt(p, body)
    \/ \E p \in Portfolios, id \in 1..MaxAdminRows, body \in PromptBodies :
          UpdatePrompt(p, id, body)
    \/ \E p \in Portfolios, id \in 1..MaxAdminRows : DeletePrompt(p, id)

SpecAdmin == Init /\ [][NextAdmin]_vars

(***************************************************************************)
(* buildExecutionContext under outages of the market data source           *)
(***************************************************************************)
\* a build for every set of held symbols, with getQuote failing for the
\* symbols of quoteDown and getHistory failing for those of historyDown
InitContext ==
    /\ exists = {}
    /\ cash = [p \in Portfolios |-> 0]
    /\ positions = [p \in Portfolios |-> {}]
    /\ trades = [p \in Portfolios |-> <<>>]
    /\ run = NoRun
    /\ lastCall = NoCall
    /\ text = <<>>
    /\ extracted = NotExtracted
    /\ book = NoBook
    /\ url = NoUrl
    /\ http = NoHttp
    /\ admin = NoAdmin
    /\ ctx \in {[NoCtx EXCEPT !.held = h, !.quoteDown = q, !.historyDown = d] :
                   h \in SUBSET Symbols, q \in SUBSET Symbols, d \in SUBSET Symbols}
    /\ route = NoRoute
    /\ pricing = NoPricing
    /\ execution = NoRecord

\* Promise.all(positions.map(getQuote)) of buildPortfolioSnapshot, and
\* Promise.all(symbols.map(getQuote)) of buildExecutionContext: rejects when
\* one getQuote rejects
QuotesReject(c) == c.held \cap c.quoteDown # {}

\* historyEntries: the candles of a symbol, or [] when getHistory threw
historyEntries(c) ==
    [s \in Symbols |->
        IF s \notin c.held THEN "absent"
        ELSE IF s \in c.historyDown THEN "empty" ELSE "candles"]

\* buildExecutionContext(portfolioId)
buildExecutionContext(c) ==
    IF QuotesReject(c)
    THEN [c EXCEPT !.pc = "threw", !.error = OracleError]
    ELSE [c EXCEPT !.pc = "built", !.histories = historyEntries(c)]

\* runLlmPlan up to the attempt loop
BuildContext ==
    /\ ctx.pc = "idle"
    /\ ctx' = buildExecutionContext(ctx)
    /\ UNCHANGED <<exists, cash, positions, trades, run, lastCall, text, extracted, book, url, http, admin, route, pricing, execution>>

\* the first callProvider of the attempt loop
InvokeProvider ==
    /\ ctx.pc = "built"
    /\ ctx' = [ctx EXCEPT !.pc = "invoked", !.providerCalls = 1]
    /\ UNCHANGED <<exists, cash, positions, trades, run, lastCall, text, extracted, book, url, http, admin, route, pricing, execution>>

NextContext == BuildContext \/ InvokeProvider

SpecContext == InitContext /\ [][NextContext]_vars

(***************************************************************************)
(* POST /api/portfolios/:id/llm/run up to the call of runLlmPlan           *)
(***************************************************************************)
PromptNotFound == "Prompt not found"
NoProviderConfigured == "No LLM provider configured"

ProviderIds == 1..MaxProviders

\* the LlmProvider tables a request may find: rows in the order they were
\* made (createdAt grows with id), at most one of them the default
ProviderTables ==
    {{[id |-> i, isDefault |-> i = d] : i \in ids} :
        ids \in SUBSET ProviderIds, d \in 0..MaxProviders}

\* the PortfolioPrompt rows of the default portfolio: prompt 1 is its default
\* prompt, active or not, prompt 2 is another prompt; providerId 0 is null
PromptTables(providerRows) ==
    LET refs == {0} \cup {r.id : r \in providerRows}
        first == {{}} \cup {{[id |-> 1, portfolioId |-> DEFAULT_PORTFOLIO_ID, providerId |-> l,
                              isDefault |-> TRUE, isActive |-> a]} :
                               l \in refs, a \in BOOLEAN}
        second == {{}} \cup {{[id |-> 2, portfolioId |-> DEFAULT_PORTFOLIO_ID, providerId |-> l,
                               isDefault |-> FALSE, isActive |-> TRUE]} : l \in refs}
    IN {a \cup b : a \in first, b \in second}

\* the bodies of run requests: promptId and providerId absent (0) or given
RunBodies == [promptId : 0..3, providerId : 0..(MaxProviders + 1)]

InitResolve ==
    /\ exists = {}
    /\ cash = [p \in Portfolios |-> 0]
    /\ positions = [p \in Portfolios |-> {}]
    /\ trades = [p \in Portfolios |-> <<>>]
    /\ run = NoRun
    /\ lastCall = NoCall
    /\ text = <<>>
    /\ extracted = NotExtracted
    /\ book = NoBook
    /\ url = NoUrl
    /\ http = NoHttp
    /\ admin = NoAdmin
    /\ ctx = NoCtx
    /\ \E t \in ProviderTables : \E q \in PromptTables(t) :
          route = [NoRoute EXCEPT !.providers = t, !.prompts = q]
    /\ pricing = NoPricing
    /\ execution = NoRecord

\* the row with the smallest createdAt
Oldest(rows) == CHOOSE r \in rows : \A o \in rows : r.id <= o.id

\* prisma.portfolioPrompt.findUnique / findFirst of the route: the prompt id, or 0
effectivePrompt(r, portfolioId, promptId) ==
    IF promptId # 0
    THEN IF \E q \in r.prompts : q.id = promptId THEN promptId ELSE 0
    ELSE LET found == {q \in r.prompts :
                          q.portfolioId = portfolioId /\ q.isDefault /\ q.isActive}
         IN IF found = {} THEN 0 ELSE Oldest(found).id

\* prompt?.providerId ?? null
linkedProvider(r, promptRow) ==
    IF promptRow = 0 THEN 0
    ELSE (CHOOSE q \in r.prompts : q.id = promptRow).providerId

\* a resolver that does not look for the default provider
resolveProvider_NoDefault(r, explicitId, fallbackId) ==
    LET has(i) == \E row \in r.providers : row.id = i
    IN IF explicitId # 0 /\ has(explicitId) THEN explicitId
       ELSE IF fallbackId # 0 /\ has(fallbackId) THEN fallbackId
       ELSE IF r.providers # {} THEN Oldest(r.providers).id
       ELSE 0

\* resolveProvider(explicitId, fallbackId): the provider id, or 0 for null
resolveProvider(r, explicitId, fallbackId) ==
    LET has(i) == \E row \in r.providers : row.id = i
        defaults == {row \in r.providers : row.isDefault}
    IN IF explicitId # 0 /\ has(explicitId) THEN explicitId
       ELSE IF fallbackId # 0 /\ has(fallbackId) THEN fallbackId
       ELSE IF defaults # {} THEN Oldest(defaults).id
       ELSE IF r.providers # {} THEN Oldest(r.providers).id
       ELSE 0

\* the route from the request to the call of runLlmPlan
RunRequest(p, body) ==
    /\ route.pc = "idle"
    /\ LET asked == [route EXCEPT !.portfolioId = p, !.promptId = body.promptId,
                                  !.providerId = body.providerId]
           prompt == effectivePrompt(route, p, body.promptId)
           provider == resolveProvider(route, body.providerId, linkedProvider(route, prompt))
       IN IF ~getPortfolioRecordOk(p)
          THEN /\ route' = [asked EXCEPT !.pc = "answered", !.status = 400,
                                         !.error = PortfolioMissing]
               /\ UNCHANGED <<exists, cash>>
          ELSE /\ exists' = EnsureExists(p)
               /\ cash' = CashAfterEnsure(p)
               /\ route' =
                     IF body.promptId # 0 /\ prompt = 0
                     THEN [asked EXCEPT !.pc = "answered", !.status = 404,
                                        !.error = PromptNotFound]
                     ELSE IF provider = 0
                     THEN [asked EXCEPT !.pc = "answered", !.status = 400, !.prompt = prompt,
                                        !.error = NoProviderConfigured]
                     ELSE [asked EXCEPT !.pc = "running", !.prompt = prompt,
                                        !.provider = provider,
                                        !.execution = [status |-> "pending",
                                                       promptId |-> prompt,
                                                       providerId |-> provider]]
    /\ UNCHANGED <<positions, trades, run, lastCall, text, extracted, book, url, http, admin, ctx, pricing, execution>>

NextResolve == \E p \in Portfolios, body \in RunBodies : RunRequest(p, body)

SpecResolve == InitResolve /\ [][NextResolve]_vars

(***************************************************************************)
(* Two portfolios under manual trades, batches, resets and plan runs       *)
(***************************************************************************)
\* both portfolios exist: the default one and one created by POST /api/portfolios
InitPair ==
    /\ exists = Portfolios
    /\ cash = [p \in Portfolios |-> INITIAL_CASH_BALANCE]
    /\ positions = [p \in Portfolios |-> {}]
    /\ trades = [p \in Portfolios |-> <<>>]
    /\ run = NoRun
    /\ lastCall = NoCall
    /\ text = <<>>
    /\ extracted = NotExtracted
    /\ book = NoBook
    /\ url = NoUrl
    /\ http = NoHttp
    /\ admin = NoAdmin
    /\ ctx = NoCtx
    /\ route = NoRoute
    /\ pricing = NoPricing
    /\ execution = NoRecord

\* a BUY that fits and a SELL, rejected when nothing is held
PairInputs ==
    { TradeInput("AAA", "BUY", 1, 30000), TradeInput("AAA", "SELL", 1, 70000) }

PairBatches == UNION {[1..n -> PairInputs] : n \in 1..MaxPairRows}

PairResponses == { <<LB, "buyA", RB>>, <<LB, "sellA", RB>> }

PairOracles ==
    { [s \in Symbols |-> [throws |-> FALSE, price |-> 30000, previousClose |-> NoPrice]] }

NextPair ==
    \/ \E p \in Portfolios, t \in PairInputs : Len(trades[p]) < MaxPairRows /\ PostTrade(p, t)
    \/ \E p \in Portfolios : ResetPortfolio(p)
    \/ \E p \in Portfolios, b \in PairBatches :
          /\ Len(trades[p]) + Len(b) <= MaxPairRows
          /\ ExecBatch(p, b)
    \/ \E p \in Portfolios \ Desk : StartRun(p, FALSE)
    \/ \E c \in PairResponses, orc \in PairOracles : ProviderResponds(c, orc)
    \/ /\ run.pc = "execute"
       /\ Len(trades[run.p]) + Len(run.trades) <= MaxPairRows
          \/ executeTradeInputs(run.trades, run.p).err # ""
       /\ ExecuteTrades(TRUE)

SpecPair == InitPair /\ [][NextPair]_vars

(***************************************************************************)
(* POST /api/portfolios/:id/llm/run: the execution record around runLlmPlan *)
(***************************************************************************)
\* prisma.llmExecution.create({ data: { ..., status: "pending" } })
CreateExecution(dryRun) ==
    /\ execution.status = "none"
    /\ run.pc = "idle"
    /\ execution' = [NoRecord EXCEPT !.status = "pending", !.dryRun = dryRun]
    /\ UNCHANGED <<exists, cash, positions, trades, run, lastCall, text, extracted, book, url, http, admin, ctx, route, pricing>>

\* the update of the record after runLlmPlan returned or threw, and the answer
FinishExecution ==
    /\ execution.status = "pending"
    /\ run.pc \in {"returned", "threw"}
    /\ execution' =
          IF run.pc = "returned"
          THEN [execution EXCEPT
                   !.status = IF run.executed THEN "completed"
                              ELSE IF execution.dryRun THEN "dry-run" ELSE "planned",
                   !.updates = execution.updates + 1,
                   !.answered = TRUE,
                   !.hasPlan = TRUE,
                   !.executedOrders = run.trades,
                   !.errorMessage = ""]
          ELSE [execution EXCEPT
                   !.status = "error",
                   !.updates = execution.updates + 1,
                   !.answered = TRUE,
                   !.hasPlan = run.error.hasResult,
                   !.executedOrders = IF run.error.hasResult THEN run.error.trades ELSE <<>>,
                   !.errorMessage = run.error.message]
    /\ UNCHANGED <<exists, cash, positions, trades, run, lastCall, text, extracted, book, url, http, admin, ctx, route, pricing>>

RecordResponses == { <<LB, "buyA", RB>>, <<LB, "sellA", RB>>, <<LB, "empty", RB>>, <<TXT>> }

NextRecord ==
    \/ \E t \in PairInputs :
          /\ execution.status = "none"
          /\ trades[DEFAULT_PORTFOLIO_ID] = <<>>
          /\ PostTrade(DEFAULT_PORTFOLIO_ID, t)
    \/ \E d \in BOOLEAN : CreateExecution(d)
    \/ /\ execution.status = "pending"
       /\ run.pc = "idle"
       /\ StartRun(DEFAULT_PORTFOLIO_ID, execution.dryRun)
    \/ ProviderFails
    \/ \E c \in RecordResponses, orc \in PairOracles : ProviderResponds(c, orc)
    \/ \E ok \in BOOLEAN :
          /\ run.pc = "execute"
          /\ Len(trades[run.p]) + Len(run.trades) <= MaxTrades
             \/ executeTradeInputs(run.trades, run.p).err # ""
          /\ ExecuteTrades(ok)
    \/ FinishExecution

SpecRecord == Init /\ [][NextRecord]_vars

(***************************************************************************)
(* buildTradesFromPlan on every short plan of validated orders             *)
(***************************************************************************)
\* orders the schema accepts: market and limit, with and without a limit
\* price, on a quoted and on an unquoted symbol
PricedOrders ==
    {OrderData(o) : o \in { Market("AAA", "BUY", 1), Market("BBB", "SELL", 2),
                            Limit("AAA", "SELL", 1, 70000), Limit("BBB", "BUY", 1, 30000),
                            LimitNoPrice("AAA", "BUY", 1),
                            RawOrder("BBB", "BUY", 10, "market", TRUE, 70000, FALSE, 0) }}

PricedPlans == UNION {[1..n -> PricedOrders] : n \in 0..MaxPricedOrders}

\* context.raw.quotes: a price for a held symbol, nothing for the others
PricedQuotes ==
    { NoQuotes,
      [s \in Symbols |-> IF s = "AAA" THEN 120 ELSE NoPrice],
      [s \in Symbols |-> IF s = "BBB" THEN 130 ELSE NoPrice] }

\* quote answers, one of them with both a current price and a previous close
PricedAnswers ==
    OracleAnswers \cup {[throws |-> FALSE, price |-> 30000, previousClose |-> 70000]}

InitPricing ==
    /\ exists = {}
    /\ cash = [p \in Portfolios |-> 0]
    /\ positions = [p \in Portfolios |-> {}]
    /\ trades = [p \in Portfolios |-> <<>>]
    /\ run = NoRun
    /\ lastCall = NoCall
    /\ text = <<>>
    /\ extracted = NotExtracted
    /\ book = NoBook
    /\ url = NoUrl
    /\ http = NoHttp
    /\ admin = NoAdmin
    /\ ctx = NoCtx
    /\ route = NoRoute
    /\ \E o \in PricedPlans, q \in PricedQuotes, a \in PricedAnswers :
          pricing = [NoPricing EXCEPT !.orders = o, !.quotes = q, !.oracle = a]
    /\ execution = NoRecord

\* buildTradesFromPlan(plan, context)
PricePlan ==
    /\ ~pricing.done
    /\ LET built == buildTradesFromPlan([version |-> "1.0", arbitrages |-> pricing.orders],
                                        pricing.quotes,
                                        [s \in Symbols |-> pricing.oracle])
       IN pricing' = [pricing EXCEPT !.done = TRUE, !.err = built.err,
                                     !.trades = IF built.err = "" THEN built.trades ELSE <<>>]
    /\ UNCHANGED <<exists, cash, positions, trades, run, lastCall, text, extracted, book, url, http, admin, ctx, route, execution>>

NextPricing == PricePlan

SpecPricing == InitPricing /\ [][NextPricing]_vars

(***************************************************************************)
(* Properties                                                              *)
(***************************************************************************)

\* C1: within one run the provider is invoked at most 3 times; a run that
\* returns on attempt k has made exactly k invocations (3 when attempts 1 and
\* 2 failed); a run that fails in the attempt loop has made exactly 3
\* invocations and throws the error of the third attempt.
C1_RetryBound ==
    /\ run.providerCalls <= 3
    /\ run.pc = "returned" => (run.providerCalls = run.attempt /\ run.attempt <= 3)
    /\ (run.pc = "threw" /\ run.attempt > 0) =>
          /\ run.providerCalls = 3
          /\ run.attempt = 3
          /\ run.error.message = run.lastErr

C1_Witness ==
    run.pc = "returned" /\ run.attempt = 3 /\ run.providerCalls = 3 /\ run.executed

\* C2: once executeTradeInputs has rejected the batch of attempt k, the run
\* has stopped there: it has thrown and no provider invocation follows.
C2_LedgerErrorNotRetried ==
    run.rejectedAt # 0 =>
        (run.pc = "threw" /\ run.providerCalls = run.rejectedAt /\ run.ledgerCalls = 1)

\* C3: a run in which the ledger rejected a validated and priced plan ends with
\* an LlmPlanExecutionError that carries the plan and the attempted trades
\* with executed = false.
C3_ExecutionFailureReported ==
    (run.pc \in {"returned", "threw"} /\ run.rejectedAt # 0) =>
        /\ run.pc = "threw"
        /\ run.error.name = "LlmPlanExecutionError"
        /\ run.error.hasResult
        /\ run.error.plan.version = "1.0"
        /\ Len(run.error.trades) > 0
        /\ ~run.error.executed

RECURSIVE CashDelta(_)
CashDelta(batch) ==
    IF batch = <<>> THEN 0
    ELSE (IF Head(batch).side = "BUY" THEN 0 - Head(batch).qty * Head(batch).price
                                      ELSE Head(batch).qty * Head(batch).price)
         + CashDelta(Tail(batch))

RECURSIVE QtyDelta(_, _)
QtyDelta(batch, sym) ==
    IF batch = <<>> THEN 0
    ELSE (IF Head(batch).symbol # sym THEN 0
          ELSE IF Head(batch).side = "BUY" THEN Head(batch).qty ELSE 0 - Head(batch).qty)
         + QtyDelta(Tail(batch), sym)

HeldQty(rows, sym) == FindPosition(rows, sym).qty

AllApplied(p, batch) ==
    /\ cash'[p] = cash[p] + CashDelta(batch)
    /\ trades'[p] = trades[p] \o [i \in 1..Len(batch) |-> createTradeRecord(batch[i])]
    /\ \A sym \in Symbols :
          HeldQty(positions'[p], sym) = HeldQty(positions[p], sym) + QtyDelta(batch, sym)

NothingApplied(p) ==
    /\ cash'[p] = cash[p]
    /\ positions'[p] = positions[p]
    /\ trades'[p] = trades[p]

\* C4: a call of executeTradeInputs either applies every instruction of the
\* batch (cash, positions, one Trade row per instruction, in order) or, when an
\* instruction at any index is rejected, leaves cash, positions and trades of
\* the portfolio exactly as they were before the call.
C4_BatchAtomicity ==
    [][\A p \in Desk :
          ExecBatch(p, lastCall'.batch)
          => \/ lastCall'.err = "" /\ AllApplied(p, lastCall'.batch)
             \/ lastCall'.err # "" /\ NothingApplied(p)]_vars

C4_Witness ==
    lastCall.op = "executeTradeInputs" /\ lastCall.err # "" /\ lastCall.done >= 1

CashNonNegative == \A p \in Portfolios : cash[p] >= 0

\* the BUY at index i of the batch costs more than the cash left by the
\* instructions before it
BuyExceedsCashAt(p, batch, i) ==
    /\ batch[i].side = "BUY"
    /\ batch[i].qty * batch[i].price > cash[p] + CashDelta(SubSeq(batch, 1, i - 1))

\* C5: the cash balance of every portfolio is >= 0 in every state reached by
\* manual trades, batches and resets; a BUY whose notional exceeds the cash
\* available at that point is rejected with "Insufficient cash balance for
\* this trade" and cash, positions and trades are left unchanged.
C5_CashInvariant ==
    /\ []CashNonNegative
    /\ [][\A p \in Desk :
            (/\ lastCall'.op = "postTrade"
             /\ PostTrade(p, lastCall'.batch[1])
             /\ lastCall'.batch[1].side = "BUY"
             /\ lastCall'.batch[1].qty * lastCall'.batch[1].price > CashAfterEnsure(p)[p])
            => /\ lastCall'.err = InsufficientCashError
               /\ cash'[p] = CashAfterEnsure(p)[p]
               /\ positions'[p] = positions[p]
               /\ trades'[p] = trades[p]]_vars
    /\ [][\A p \in Desk :
            (/\ p \in exists
             /\ ExecBatch(p, lastCall'.batch)
             /\ lastCall'.done < lastCall'.len
             /\ BuyExceedsCashAt(p, lastCall'.batch, lastCall'.done + 1))
            => /\ lastCall'.err = InsufficientCashError
               /\ NothingApplied(p)]_vars

C5_Witness ==
    /\ lastCall.op = "postTrade"
    /\ lastCall.err = InsufficientCashError
    /\ \E p \in Desk : cash[p] > 0 /\ positions[p] # {}

\* C7: a dry run never calls executeTradeInputs; a plan with zero trade
\* instructions never reaches the ledger; the step that returns such a run
\* leaves cash, positions and trades unchanged and the run returns its plan
\* and trades with executed = false and no error.
C7_DryRunAndEmptyPlanSkipLedger ==
    /\ [](run.dryRun => (run.ledgerCalls = 0 /\ run.commits = 0 /\ run.pc # "execute"))
    /\ [](run.pc = "execute" => Len(run.trades) > 0)
    /\ []((run.pc = "returned" /\ (run.dryRun \/ Len(run.trades) = 0)) =>
             (~run.executed /\ run.error = NoRunError /\ run.plan.version = "1.0"
              /\ Len(run.trades) = Len(run.plan.arbitrages)))
    /\ [][(run.pc = "invoke" /\ run'.pc = "returned") =>
             (UNCHANGED <<cash, positions, trades, lastCall>>
              /\ run'.ledgerCalls = run.ledgerCalls)]_vars

C7_Witness ==
    run.pc = "returned" /\ run.dryRun /\ Len(run.trades) > 0 /\ ~run.executed

\* C8: an attempt whose plan holds a limit order without limitPrice fails
\* before any price is resolved for any order of the plan, and without a
\* call of the ledger.
C8_LimitRejectedBeforePricing ==
    run.lastErr = LimitError => (run.lookups = 0 /\ run.pc # "execute")

\* the constraints of the plan schema, on the object the model wrote
ClaimAccepts(raw) ==
    /\ raw.version = "1.0"
    /\ Len(raw.arbitrages) <= 25
    /\ \A i \in 1..Len(raw.arbitrages) :
          LET o == raw.arbitrages[i]
          IN /\ o.symbol # ""
             /\ o.action \in {"BUY", "SELL"}
             /\ o.quantity10 > 0
             /\ o.quantity10 % 10 = 0
             /\ o.hasLimitPrice => o.limitPrice > 0
             /\ o.hasConfidence => (o.confidence10 >= 0 /\ o.confidence10 <= 10)

\* each trade instruction is the order at its index: upper-cased symbol,
\* side and quantity
TradesComeFrom(tradeList, raw) ==
    /\ Len(tradeList) = Len(raw.arbitrages)
    /\ \A i \in 1..Len(tradeList) :
          /\ tradeList[i].symbol \in {"AAA", "BBB"}
          /\ tradeList[i].symbol = toUpperCase(raw.arbitrages[i].symbol)
          /\ tradeList[i].side = raw.arbitrages[i].action
          /\ tradeList[i].qty * 10 = raw.arbitrages[i].quantity10

\* C9: every batch runLlmPlan passes to executeTradeInputs comes from the
\* orders of an object that the schema accepted in the same attempt: version
\* "1.0", at most 25 orders, symbol non-empty and upper-cased, action BUY or
\* SELL, quantity a positive integer, limitPrice positive and confidence in
\* [0,1] when present.
C9_ValidatorIsTrustBoundary ==
    /\ [](run.pc = "execute" =>
            /\ run.body \in BodyNames
            /\ ClaimAccepts(PlanBodies[run.body])
            /\ TradesComeFrom(run.trades, PlanBodies[run.body]))
    /\ [][run'.ledgerCalls > run.ledgerCalls =>
            /\ run.pc = "execute"
            /\ run.body \in BodyNames
            /\ ClaimAccepts(PlanBodies[run.body])
            /\ TradesComeFrom(run.trades, PlanBodies[run.body])
            /\ lastCall'.len = Len(run.trades)]_vars

C9_Witness ==
    /\ run.ledgerCalls > 0
    /\ lastCall.op = "executeTradeInputs"
    /\ lastCall.len = 25

\* the texts that carry the object b: raw, fenced (with and without the
\* language tag) and with commentary before and after
FormsOf(b) ==
    { <<LB, b, RB>>,
      <<FENCE, JSONTAG, LB, b, RB, FENCE>>,
      <<FENCE, JSONTAG, WS, LB, b, RB>>,
      <<FENCE, LB, b, RB, FENCE>>,
      <<TXT, LB, b, RB, TXT>>,
      <<TXT, LB, b, RB>>,
      <<LB, b, RB, TXT>> }

HasBrace(seq) == \E i \in 1..Len(seq) : seq[i] \in {LB, RB}

\* no braces, braces that enclose invalid JSON, or a fenced block whose
\* content is not JSON
NoRecoverableObject(t) ==
    LET n == Trim(t)
    IN IF n # <<>> /\ Head(n) = FENCE
       THEN ~JsonParse(Trim(StripFences(n))).ok
       ELSE \/ ~HasBrace(n)
            \/ /\ ~JsonParse(n).ok
               /\ IndexOf(n, LB) # 0
               /\ LastIndexOf(n, RB) > IndexOf(n, LB)
               /\ ~JsonParse(SubSeq(n, IndexOf(n, LB), LastIndexOf(n, RB))).ok

\* C10: the raw, fenced and commentary-wrapped texts of one object extract to
\* that object, and every text with no recoverable JSON object raises
\* "Unable to extract JSON payload from LLM response".
C10_ExtractionRobust ==
    extracted.kind # "none" =>
        /\ text \in FormsOf("buyA") => (extracted.kind = "ok" /\ extracted.parsed = "buyA")
        /\ NoRecoverableObject(text) =>
              (extracted.kind = "error" /\ extracted.message = ExtractionError)

OversellError == "Cannot sell more shares than currently held"
NoPositionError == "Cannot sell a position that does not exist"

\* the error a SELL of qty shares must raise against a holding of held shares
SellErrorFor(held, qty) ==
    IF held = 0 THEN NoPositionError
    ELSE IF qty > held THEN OversellError
    ELSE ""

\* C11: a SELL of more shares than an existing position holds is rejected
\* with "Cannot sell more shares than currently held", a SELL of a symbol
\* with no position with "Cannot sell a position that does not exist"; in
\* both cases the positions (quantity and average price), the cash balance
\* and the trade list are as before the request, for a manual trade and for
\* the instruction at any index of a batch.
C11_OversellRejected ==
    /\ [][\A p \in Desk :
            (/\ lastCall'.op = "postTrade"
             /\ PostTrade(p, lastCall'.batch[1])
             /\ lastCall'.batch[1].side = "SELL"
             /\ SellErrorFor(HeldQty(positions[p], lastCall'.batch[1].symbol),
                             lastCall'.batch[1].qty) # "")
            => /\ lastCall'.err =
                     SellErrorFor(HeldQty(positions[p], lastCall'.batch[1].symbol),
                                  lastCall'.batch[1].qty)
               /\ cash'[p] = CashAfterEnsure(p)[p]
               /\ positions'[p] = positions[p]
               /\ trades'[p] = trades[p]]_vars
    /\ [][\A p \in Desk :
            (/\ p \in exists
             /\ ExecBatch(p, lastCall'.batch)
             /\ lastCall'.done < lastCall'.len
             /\ lastCall'.batch[lastCall'.done + 1].side = "SELL"
             /\ LET t == lastCall'.batch[lastCall'.done + 1]
                    held == HeldQty(positions[p], t.symbol)
                            + QtyDelta(SubSeq(lastCall'.batch, 1, lastCall'.done), t.symbol)
                IN SellErrorFor(held, t.qty) # "")
            => /\ LET t == lastCall'.batch[lastCall'.done + 1]
                      held == HeldQty(positions[p], t.symbol)
                              + QtyDelta(SubSeq(lastCall'.batch, 1, lastCall'.done), t.symbol)
                  IN lastCall'.err = SellErrorFor(held, t.qty)
               /\ NothingApplied(p)]_vars

C11_Witness ==
    /\ lastCall.err = OversellError
    /\ \E p \in Desk : \E r \in positions[p] : r.symbol = "AAA" /\ r.qty = 1

PositionRowsValid ==
    \A p \in Portfolios :
        /\ \A r \in positions[p] : r.qty > 0
        /\ \A r1, r2 \in positions[p] : r1.symbol = r2.symbol => r1 = r2

HasRow(rows, sym) == \E r \in rows : r.symbol = sym

\* C12: every Position row has a quantity greater than zero and no portfolio
\* has two rows for one symbol; after a manual trade or a batch that sold
\* exactly what was held of a symbol, the portfolio has no row for it.
C12_PositionQuantityInvariant ==
    /\ []PositionRowsValid
    /\ [][\A p \in Desk, sym \in Symbols :
            (/\ ExecBatch(p, lastCall'.batch)
             /\ lastCall'.err = ""
             /\ HasRow(positions[p], sym)
             /\ HeldQty(positions[p], sym) + QtyDelta(lastCall'.batch, sym) = 0)
            => ~HasRow(positions'[p], sym)]_vars
    /\ [][\A p \in Desk :
            (/\ lastCall'.op = "postTrade"
             /\ PostTrade(p, lastCall'.batch[1])
             /\ lastCall'.err = ""
             /\ lastCall'.batch[1].side = "SELL"
             /\ lastCall'.batch[1].qty = HeldQty(positions[p], lastCall'.batch[1].symbol))
            => ~HasRow(positions'[p], lastCall'.batch[1].symbol)]_vars

C12_Witness ==
    /\ lastCall.op = "executeTradeInputs"
    /\ lastCall.err = ""
    /\ lastCall.len >= 1
    /\ lastCall.batch[lastCall.len].side = "SELL"
    /\ lastCall.batch[lastCall.len].qty = 2
    /\ ~HasRow(positions[lastCall.p], lastCall.batch[lastCall.len].symbol)

\* C13: a SELL of fewer shares than the position holds leaves a position of
\* the old quantity minus the sold quantity at the same average price,
\* whatever the sell price.
C13_SellKeepsAveragePrice ==
    [][\A t \in FillInputs :
          (/\ Fill(t)
           /\ t.side = "SELL"
           /\ book.position # NoPosition
           /\ t.qty < book.position.qty)
          => /\ book'.err = ""
             /\ book'.position.qty = book.position.qty - t.qty
             /\ book'.position.avgPrice = book.position.avgPrice]_vars

C13_Witness ==
    /\ ~book.buysOnly
    /\ book.err = ""
    /\ book.position.qty = 2
    /\ book.position.avgPrice % AvgScale # 0

RECURSIVE SumQty(_)
SumQty(fills) == IF fills = <<>> THEN 0 ELSE Head(fills).qty + SumQty(Tail(fills))

RECURSIVE SumCost(_)
SumCost(fills) ==
    IF fills = <<>> THEN 0 ELSE Head(fills).qty * Head(fills).price + SumCost(Tail(fills))

Abs(x) == IF x < 0 THEN 0 - x ELSE x

\* what the stored average price times the quantity misses of the summed cost,
\* in units of 1/AvgScale
CostGap == book.position.avgPrice * book.position.qty - AvgScale * SumCost(book.fills)

\* C14 as stated: after any sequence of BUY fills on a fresh position the
\* quantity is the sum of the fill quantities and the average price times the
\* quantity equals the sum of qty_i x price_i.
C14_WeightedAverageExact ==
    (book.buysOnly /\ book.fills # <<>>) =>
        /\ book.position.qty = SumQty(book.fills)
        /\ CostGap = 0

\* C14 amended: after any sequence of BUY fills on a fresh position the
\* quantity is the sum of the fill quantities and the average price is the
\* quantity-weighted mean up to the rounding of the division made at each fill
\* after the first: the gap is at most half a unit of the last digit kept, per
\* share, per such fill; fills at one price give exactly that price.
C14_WeightedAverageRounded ==
    (book.buysOnly /\ book.fills # <<>>) =>
        /\ book.position.qty = SumQty(book.fills)
        /\ 2 * Abs(CostGap) <= (Len(book.fills) - 1) * book.position.qty
        /\ (\A i \in 1..Len(book.fills) : book.fills[i].price = book.fills[1].price)
              => book.position.avgPrice = AvgScale * book.fills[1].price

C14_Witness ==
    /\ book.buysOnly
    /\ Len(book.fills) = 3
    /\ CostGap # 0

Slashes(n) == [i \in 1..n |-> SLASH]

\* the address is the origin o alone, or o followed by the version segment and
\* any number of slashes
IsVersionForm(base, o) ==
    \/ base = o
    \/ \E n \in 0..MaxUrlLen : base = o \o <<SLASH, VNAME>> \o Slashes(n)

\* C15: an origin with no version segment, the same with /v1 and with /v1
\* followed by any number of slashes all give <origin>/v1/chat/completions;
\* an address that already ends in /chat/completions (and does not start with
\* white space) is returned as it is; building the address of a built address
\* changes nothing.
C15_UrlNormalization ==
    url.done =>
        /\ \A o \in Origins \ {<<>>} :
              IsVersionForm(url.base, o) =>
                  url.built = o \o <<SLASH, VNAME, SLASH, CHAT, SLASH, COMPLETIONS>>
        /\ (endsWithChatCompletions(url.base) /\ Head(url.base) # WS) => url.built = url.base
        /\ url.again = url.built

HttpFinished == http.pc \in {"returned", "threw"}

\* the last request sent to the versioned endpoint was answered 404
VersionedNotFound ==
    \E i \in 1..Len(http.answers) :
        /\ http.requests[i].url = VERSIONED
        /\ http.answers[i].status = 404
        /\ \A j \in (i + 1)..Len(http.requests) : http.requests[j].url # VERSIONED

\* the variants in their order: the original request, the versioned address
\* without the hint (only when the original had one), the stripped address
VariantsInOrder ==
    /\ Len(http.requests) <= 3
    /\ http.requests[1] = [url |-> VERSIONED, hint |-> http.hint]
    /\ \A i \in 2..Len(http.requests) :
          \/ http.requests[i] = [url |-> VERSIONED, hint |-> FALSE] /\ i = 2 /\ http.hint
          \/ http.requests[i] = [url |-> STRIPPED, hint |-> FALSE] /\ i = Len(http.requests)

\* C16: an invocation of the OpenAI-compatible adapter whose versioned endpoint
\* answered 404 went on to the address without the version segment, and
\* returned the content when that answered 2xx; the variants are tried in the
\* order original, without hint, stripped, each at most once; a 2xx answer to
\* the first request means exactly one request.
C16_NotFoundFallback ==
    (HttpFinished /\ http.type \in OpenAiFamily) =>
        /\ VariantsInOrder
        /\ ResponseOk(http.answers[1]) => Len(http.requests) = 1
        /\ VersionedNotFound =>
              /\ http.requests[Len(http.requests)].url = STRIPPED
              /\ (LET last == http.answers[Len(http.answers)]
                  IN (ResponseOk(last) /\ last.err = "none" /\ last.content = "text")
                        => http.pc = "returned")

\* C19: when the first request of the OpenAI-compatible adapter carried the
\* response-format hint and was answered with a non-2xx status other than 404,
\* no second request is sent; a finished invocation whose last answer is
\* non-2xx threw "LLM provider request failed" with that answer's status and
\* body.
C19_FallbackOnlyOnNotFound ==
    /\ (/\ http.type \in OpenAiFamily
        /\ http.hint
        /\ Len(http.answers) >= 1
        /\ ~ResponseOk(http.answers[1])
        /\ http.answers[1].status # 404)
       => (Len(http.requests) = 1 /\ http.pc = "threw")
    /\ (/\ HttpFinished
        /\ http.type \in ProviderTypes
        /\ ~ResponseOk(http.answers[Len(http.answers)]))
       => (http.pc = "threw"
           /\ http.error = RequestFailed(http.answers[Len(http.answers)]))

\* C20: an invocation of callProvider that returned gives a non-empty content;
\* a 2xx answer with an error envelope ended in a provider error; a 2xx answer
\* without envelope whose content is missing, null or empty ended in "LLM
\* provider returned no content"; a type outside the closed set threw with
\* no request sent.
C20_ProviderContent ==
    HttpFinished =>
        /\ http.pc = "returned" => http.content \notin {"", "missing", "null", "empty"}
        /\ http.type \notin ProviderTypes =>
              (http.pc = "threw" /\ http.error = UnsupportedType /\ http.requests = <<>>)
        /\ http.type \in ProviderTypes =>
              LET last == http.answers[Len(http.answers)]
              IN /\ (ResponseOk(last) /\ last.err # "none") =>
                        (http.pc = "threw" /\ http.error.kind = "LLM provider error")
                 /\ (ResponseOk(last) /\ last.err = "none"
                     /\ last.content \in {"missing", "null", "empty"}) =>
                        (http.pc = "threw" /\ http.error = NoContentError)

DefaultProviders == {r \in admin.providers : r.isDefault}

DefaultPrompts(p) == {r \in admin.prompts : r.portfolioId = p /\ r.isDefault}

\* C17: at most one provider is the default and at most one prompt of each
\* portfolio is the default, in every state reached by create, update and
\* delete requests; a create or update that succeeded with isDefault = true
\* leaves its row the default and no other row (of the same portfolio, for
\* prompts) with the flag.
C17_SingleDefault ==
    /\ Cardinality(DefaultProviders) <= 1
    /\ \A p \in Portfolios : Cardinality(DefaultPrompts(p)) <= 1
    /\ (admin.last.status \in {200, 201} /\ admin.last.isDefault = "true") =>
          /\ admin.last.op \in {"POST provider", "PUT provider"} =>
                DefaultProviders = {[id |-> admin.last.id, isDefault |-> TRUE]}
          /\ admin.last.op \in {"POST prompt", "PUT prompt"} =>
                DefaultPrompts(admin.last.portfolioId)
                    = {[id |-> admin.last.id, portfolioId |-> admin.last.portfolioId,
                        isDefault |-> TRUE]}

\* a provider was made the default by an update while another provider, the
\* default before, is still in the table
C17_Witness ==
    /\ admin.last.op = "PUT provider"
    /\ admin.last.status = 200
    /\ admin.last.isDefault = "true"
    /\ Cardinality(admin.providers) = 2
    /\ \E r \in admin.providers : r.id # admin.last.id /\ ~r.isDefault
    /\ \E p \in Portfolios : DefaultPrompts(p) # {} /\ p # DEFAULT_PORTFOLIO_ID

IsPrefix(a, b) == Len(a) <= Len(b) /\ \A i \in 1..Len(a) : b[i] = a[i]

TradeRowsPositive ==
    \A p \in Portfolios : \A i \in 1..Len(trades[p]) :
        trades[p][i].qty > 0 /\ trades[p][i].price > 0

\* a step that calls the ledger with the batch of the run in flight
LedgerCalled == run'.ledgerCalls > run.ledgerCalls

\* the effect of a step on the Trade rows: a call of the ledger that succeeds
\* appends the batch, one that is rejected appends nothing, and rows already
\* there change only by a reset
AppendOnlyStep ==
    /\ LedgerCalled =>
          IF lastCall'.err = ""
          THEN trades'[run.p] = trades[run.p]
                  \o [i \in 1..Len(run.trades) |-> createTradeRecord(run.trades[i])]
          ELSE trades' = trades
    /\ \A p \in Portfolios :
          \/ IsPrefix(trades[p], trades'[p]) /\ (trades'[p] # trades[p] => LedgerCalled)
          \/ ResetPortfolio(p)

\* C18: every Trade row has a positive quantity and a positive price; a call
\* of the ledger that succeeds appends one row per instruction, in order, with
\* the instruction's symbol, side, quantity and price, and a call that is
\* rejected appends none; no step other than a reset changes or removes a row
\* already there.
C18_AppendOnlyLedger == []TradeRowsPositive /\ [][AppendOnlyStep]_vars

\* the outage of the build is that of one held symbol
SingleOutage ==
    \E s \in ctx.held : ctx.quoteDown \cup ctx.historyDown = {s}

\* C21: a build under the outage of one held symbol, whether of its history
\* or of its quote, does not throw: it completes with an empty candle series
\* for the symbol whose history failed, and the provider is invoked from it.
C21_OutageNeverAborts ==
    (ctx.pc # "idle" /\ SingleOutage) =>
        /\ ctx.pc \in {"built", "invoked"}
        /\ \A s \in ctx.held \cap ctx.historyDown : ctx.histories[s] = "empty"

\* the request got as far as choosing a provider
ReachedResolution ==
    /\ route.pc # "idle"
    /\ route.error \notin {PortfolioMissing, PromptNotFound}

\* the provider the precedence rule names for the request, 0 when none; an
\* override counts when the provider it names is in the table
PrecedenceProvider ==
    LET linked == linkedProvider(route, route.prompt)
        defaults == {row \in route.providers : row.isDefault}
    IN IF \E row \in route.providers : row.id = route.providerId THEN route.providerId
       ELSE IF linked # 0 THEN linked
       ELSE IF defaults # {} THEN Oldest(defaults).id
       ELSE IF route.providers # {} THEN Oldest(route.providers).id
       ELSE 0

\* C22: a request that reaches runLlmPlan runs with the explicit override if
\* one was requested (and names a provider of the table), else the provider linked to the effective prompt, else
\* the default provider, else the oldest provider; it ends with "No LLM
\* provider configured" exactly when the table of providers is empty, and then
\* no execution record exists and runLlmPlan is not called.
C22_ProviderPrecedence ==
    ReachedResolution =>
        /\ route.pc = "running" => route.provider = PrecedenceProvider
        /\ route.error = NoProviderConfigured <=> route.providers = {}
        /\ route.error = NoProviderConfigured =>
              (route.pc = "answered" /\ route.execution = NoExecution)

\* C23: a request on a portfolio that does not exist, one naming a prompt id
\* that does not exist and one naming a provider id that does not exist are
\* each answered with an error, with runLlmPlan not called, no other prompt or
\* provider used, no execution record made and positions and trades as before.
C23_ConfigurationErrorsSurfaced ==
    (/\ route.pc # "idle"
     /\ \/ ~(route.portfolioId = DEFAULT_PORTFOLIO_ID)
        \/ route.promptId # 0 /\ ~(\E q \in route.prompts : q.id = route.promptId)
        \/ route.providerId # 0 /\ ~(\E r \in route.providers : r.id = route.providerId))
    => /\ route.pc = "answered"
       /\ route.error # ""
       /\ route.provider = 0
       /\ route.execution = NoExecution
       /\ \A p \in Portfolios : positions[p] = {} /\ trades[p] = <<>>

\* a run with no override and no linked provider went to the default provider
\* although an older provider is in the table
C22_Witness ==
    /\ route.pc = "running"
    /\ route.providerId = 0
    /\ linkedProvider(route, route.prompt) = 0
    /\ route.execution.status = "pending"
    /\ \E row \in route.providers : row.isDefault /\ row.id = route.provider
    /\ \E row \in route.providers : row.id < route.provider

\* the price the resolution rule gives an order, NoPrice when it gives none
RulePrice(order, quotes, answer) ==
    IF order.orderType = "limit" /\ order.hasLimitPrice THEN order.limitPrice
    ELSE IF quotes[order.symbol] # NoPrice THEN quotes[order.symbol]
    ELSE IF answer.throws THEN NoPrice
    ELSE IF answer.price # NoPrice THEN answer.price
    ELSE answer.previousClose

\* the rule prices the order (a limit order with no limit price is rejected
\* before it is priced)
RulePrices(order, quotes, answer) ==
    /\ ~(order.orderType = "limit" /\ ~order.hasLimitPrice)
    /\ RulePrice(order, quotes, answer) # NoPrice

\* C24: a priced plan has one trade per order, in order, each at the limit
\* price of a limit order, or for a market order at the quote of the context,
\* else the current price of the oracle, else its previous close; when one
\* order cannot be priced the attempt fails (with "Unable to derive price for
\* trade" when the oracle has neither price) and no trade list comes out.
C24_PriceResolution ==
    pricing.done =>
        LET allPriced == \A i \in 1..Len(pricing.orders) :
                            RulePrices(pricing.orders[i], pricing.quotes, pricing.oracle)
        IN /\ allPriced <=> pricing.err = ""
           /\ pricing.err = "" =>
                 /\ Len(pricing.trades) = Len(pricing.orders)
                 /\ \A i \in 1..Len(pricing.orders) :
                       /\ pricing.trades[i].symbol = pricing.orders[i].symbol
                       /\ pricing.trades[i].side = pricing.orders[i].action
                       /\ pricing.trades[i].qty = pricing.orders[i].quantity
                       /\ pricing.trades[i].price
                             = RulePrice(pricing.orders[i], pricing.quotes, pricing.oracle)
           /\ pricing.err # "" => pricing.trades = <<>>
           /\ (/\ \A i \in 1..Len(pricing.orders) : pricing.orders[i].orderType = "market"
               /\ \E i \in 1..Len(pricing.orders) : pricing.quotes[pricing.orders[i].symbol] = NoPrice
               /\ ~pricing.oracle.throws
               /\ pricing.oracle.price = NoPrice
               /\ pricing.oracle.previousClose = NoPrice)
              => pricing.err = PricingError

\* a plan of a limit order and a market order of an unquoted symbol, priced
\* at the limit price and at the previous close of the oracle
C24_Witness ==
    /\ pricing.done
    /\ pricing.err = ""
    /\ Len(pricing.trades) = 2
    /\ pricing.orders[1].orderType = "limit"
    /\ pricing.orders[2].orderType = "market"
    /\ pricing.quotes[pricing.orders[2].symbol] = NoPrice
    /\ pricing.trades[2].price = pricing.oracle.previousClose
    /\ pricing.oracle.price = NoPrice

\* C26: one runLlmPlan call commits at most one batch over its attempts,
\* also when the snapshot fetched after the commit fails.
C26_AtMostOneCommit == run.commits <= 1

\* SELL notionals minus BUY notionals of a sequence of Trade records
RECURSIVE LedgerNet(_)
LedgerNet(rows) ==
    IF rows = <<>> THEN 0
    ELSE (IF Head(rows).side = "SELL" THEN Head(rows).qty * Head(rows).price
                                      ELSE 0 - Head(rows).qty * Head(rows).price)
         + LedgerNet(Tail(rows))

CashMatchesLedger ==
    \A p \in exists : cash[p] = INITIAL_CASH_BALANCE + LedgerNet(trades[p])

\* a step that appends Trade records moves cash by their net notional
CommitMovesCash ==
    \A p \in Portfolios :
        (p \in exists /\ Len(trades'[p]) > Len(trades[p]))
            => cash'[p] = cash[p]
                          + LedgerNet(SubSeq(trades'[p], Len(trades[p]) + 1, Len(trades'[p])))

\* C27: a committed batch changes cash by the SELL notionals minus the BUY
\* notionals of its instructions, and along every sequence of trades, batches
\* and resets the cash of a portfolio is 100000 plus the SELL notionals minus
\* the BUY notionals of the Trade records in its ledger.
C27_CashConservation == []CashMatchesLedger /\ [][CommitMovesCash]_vars

\* a ledger holding a BUY and a SELL after a batch of two committed
C27_Witness ==
    /\ lastCall.op = "executeTradeInputs"
    /\ lastCall.err = ""
    /\ lastCall.len = 2
    /\ \E i, j \in 1..Len(trades[1]) : trades[1][i].side = "BUY" /\ trades[1][j].side = "SELL"
    /\ cash[1] # INITIAL_CASH_BALANCE

\* instruction i of the batch passes its check on the cash and the quantity
\* left by the instructions before it
PassesOnRunningState(p, batch, i) ==
    LET earlier == SubSeq(batch, 1, i - 1)
    IN IF batch[i].side = "BUY"
       THEN cash[p] + CashDelta(earlier) >= batch[i].qty * batch[i].price
       ELSE HeldQty(positions[p], batch[i].symbol) + QtyDelta(earlier, batch[i].symbol)
               >= batch[i].qty

\* the step is the call lastCall' records
RunningChecksStep ==
    LET p == lastCall'.p
        b == lastCall'.batch
    IN (/\ lastCall'.op = "executeTradeInputs"
        /\ b # <<>>
        /\ p \in exists
        /\ ExecBatch(p, b))
           => (lastCall'.err = ""
                  <=> \A i \in 1..Len(b) : PassesOnRunningState(p, b, i))

\* C28: a batch commits exactly when every instruction passes on the running
\* state: a BUY on the cash left by the earlier instructions of the batch, a
\* SELL on the quantity held after them.
C28_RunningStateChecks == [][RunningChecksStep]_vars

\* the batch [SELL, BUY] committed on a cash balance that could not pay the
\* BUY first
C28_Witness ==
    /\ lastCall.op = "executeTradeInputs"
    /\ lastCall.err = ""
    /\ lastCall.len = 2
    /\ lastCall.batch[1].side = "SELL"
    /\ lastCall.batch[2].side = "BUY"
    /\ cash[lastCall.p] - CashDelta(lastCall.batch)
          < lastCall.batch[2].qty * lastCall.batch[2].price

\* C29: on every state of an existing portfolio and for every trade
\* instruction, POST /api/trades and executeTradeInputs with the one-element
\* batch end the same way: the same error and the state unchanged, or the same
\* cash, positions and Trade records.
C29_EndpointMatchesExecutor ==
    \A p \in exists, t \in TradeInputs :
        LET posted == PostTradeTx(t, p)
            batched == executeTradeInputs(<<t>>, p)
        IN /\ posted = batched
           /\ posted.err # "" =>
                 /\ posted.cash = cash[p]
                 /\ posted.positions = positions[p]
                 /\ posted.trades = trades[p]

\* after a manual trade, a state where one instruction is rejected by both,
\* one exhausts a position in both and one spends the whole balance in both
C29_Witness ==
    /\ lastCall.op = "postTrade"
    /\ lastCall.err = ""
    /\ \E t \in TradeInputs : executeTradeInputs(<<t>>, 1).err = InsufficientCashError
    /\ \E t \in TradeInputs :
          /\ PostTradeTx(t, 1).err = ""
          /\ t.side = "SELL"
          /\ FindPosition(PostTradeTx(t, 1).positions, t.symbol) = NoPosition
    /\ \E t \in TradeInputs :
          /\ t.side = "BUY"
          /\ t.qty * t.price = cash[1]
          /\ executeTradeInputs(<<t>>, 1).err = ""

\* the step is an operation on portfolio a: a reset, a manual trade, a batch,
\* or a step of a plan run on a
OperationOn(a) ==
    \/ ResetPortfolio(a)
    \/ /\ lastCall'.op = "postTrade"
       /\ lastCall'.p = a
       /\ PostTrade(a, lastCall'.batch[1])
    \/ /\ lastCall'.op = "executeTradeInputs"
       /\ lastCall'.p = a
       /\ ExecBatch(a, lastCall'.batch)
    \/ /\ run'.p = a
       /\ run' # run

LedgerUnchanged(b) ==
    /\ cash'[b] = cash[b]
    /\ positions'[b] = positions[b]
    /\ trades'[b] = trades[b]

IndependentStep ==
    \A a \in Portfolios :
        OperationOn(a) => \A b \in Portfolios \ {a} : LedgerUnchanged(b)

\* C25: a manual trade, a batch, a reset or a step of a plan run on one
\* portfolio, committed or rejected, leaves cash, positions and trades of
\* every other portfolio as they were, also when the operations on the two
\* portfolios interleave.
C25_PortfoliosIndependent == [][IndependentStep]_vars

\* a batch on portfolio 1 rejected while a plan run on portfolio 2, which
\* holds a position, waits to execute its trades
C25_Witness ==
    /\ lastCall.op = "executeTradeInputs"
    /\ lastCall.p = 1
    /\ lastCall.err # ""
    /\ run.p = 2
    /\ run.pc = "execute"
    /\ positions[2] # {}

\* C30: an answered run request has moved its record once from pending to a
\* terminal status: completed exactly when a batch was committed, dry-run
\* for a dry run that returned, planned for a run that returned no trades,
\* error otherwise; after a ledger failure the error record keeps the plan and
\* the trades.
C30_RecordLifecycle ==
    /\ execution.status = "pending" => ~execution.answered
    /\ execution.answered =>
          /\ execution.status \in {"completed", "dry-run", "planned", "error"}
          /\ execution.updates = 1
          /\ execution.status = "completed" <=> run.commits > 0
          /\ execution.status = "dry-run" => execution.dryRun
          /\ execution.status = "planned" => (~execution.dryRun /\ execution.executedOrders = <<>>)
          /\ run.rejectedAt # 0 =>
                /\ execution.status = "error"
                /\ execution.hasPlan
                /\ execution.executedOrders # <<>>

====
